---- MODULE Spec2Model ----
(***************************************************************************)
(* A model of the firewall-attacks-analysis pipeline: the styling          *)
(* functions (src/graph/styling.py), the preset registry and the           *)
(* configuration overlay (src/config), the aggregation and the risk        *)
(* report (src/core) and the graph construction (src/graph).               *)
(*                                                                         *)
(* Python floats are IEEE-754 doubles.  They are modelled exactly: a       *)
(* finite double is sg * m * 2^e with m an odd natural number of at most   *)
(* 53 bits, held as a sequence of 15-bit limbs (least significant first),  *)
(* and every arithmetic operation rounds to nearest, ties to even.         *)
(***************************************************************************)
EXTENDS Integers, Sequences, FiniteSets, TLC

VARIABLES
    heap,        \* the Python objects (dicts and lists) by address
    loader,      \* ConfigLoader.config: address of the global settings
    preset_config, \* the value get_preset returned last (address) or NULL
    config,      \* the value apply_to_preset returned last (address) or NULL
    raised,      \* the exception the last call raised with its message, "none" otherwise
    calls,       \* number of get_preset / apply_to_preset calls made
    sty,         \* the last call of a styling function: its arguments and result
    df,          \* the cleaned log rows (FirewallDataProcessor.df)
    top_n,       \* the top_n argument of the last aggregate_for_visualization call
    viz_data,    \* the value aggregate_for_visualization returned last
    risk_report, \* the value generate_risk_report returned last
    hostname_resolver, \* the HostnameResolver given to the builder, or None
    graph,       \* the value FirewallGraphBuilder.build returned last
    config_file, \* what ConfigLoader found at config.yaml, None when not modelled
    net          \* the resolver's surroundings: DNS, cache file, clock, worker tasks

vars == <<heap, loader, preset_config, config, raised, calls, sty, df,
          top_n, viz_data, risk_report, hostname_resolver, graph,
          config_file, net>>

NULL == 0
None == "None"

Max2(a, b) == IF a >= b THEN a ELSE b
Min2(a, b) == IF a <= b THEN a ELSE b
Abs(n) == IF n < 0 THEN 0 - n ELSE n

(***************************************************************************)
(* Natural numbers of any size, as sequences of limbs < 2^15.              *)
(***************************************************************************)
LimbBits == 15
BASE == 2 ^ LimbBits

Limb(a, i) == IF 1 <= i /\ i <= Len(a) THEN a[i] ELSE 0

\* a without its leading zero limbs
BNorm(a) ==
    LET nz == {i \in 1..Len(a) : a[i] # 0}
    IN  IF nz = {} THEN <<>>
        ELSE SubSeq(a, 1, CHOOSE i \in nz : \A k \in nz : k <= i)

\* for 0 <= n < 2^31
BFromNat(n) == BNorm(<<n % BASE, (n \div BASE) % BASE, n \div (BASE * BASE)>>)

\* for a < 2^31
BToNat(a) == Limb(a, 1) + BASE * Limb(a, 2) + BASE * BASE * Limb(a, 3)

\* -1, 0, 1 as a < b, a = b, a > b
BCmp(a, b) ==
    IF Len(a) # Len(b) THEN (IF Len(a) < Len(b) THEN -1 ELSE 1)
    ELSE LET d == {i \in 1..Len(a) : a[i] # b[i]}
         IN  IF d = {} THEN 0
             ELSE LET i == CHOOSE i \in d : \A k \in d : k <= i
                  IN  IF a[i] < b[i] THEN -1 ELSE 1

\* a + b; the carry into limb i comes from a lower limb that overflows, all
\* limbs between passing it on
BAdd(a, b) ==
    LET n == Max2(Len(a), Len(b))
        s == [i \in 1..n |-> Limb(a, i) + Limb(b, i)]
        c == [i \in 1..(n + 1) |->
                IF \E j \in 1..(i - 1) :
                      /\ s[j] >= BASE
                      /\ \A k \in (j + 1)..(i - 1) : s[k] = BASE - 1
                THEN 1 ELSE 0]
    IN  BNorm([i \in 1..(n + 1) |->
                  IF i <= n THEN (s[i] + c[i]) % BASE ELSE c[i]])

\* a - b for a >= b; the borrow from limb i is asked by a lower limb that is
\* too small, all limbs between being equal
BSub(a, b) ==
    LET n == Len(a)
        w == [i \in 1..n |->
                IF \E j \in 1..(i - 1) :
                      /\ a[j] < Limb(b, j)
                      /\ \A k \in (j + 1)..(i - 1) : a[k] = Limb(b, k)
                THEN 1 ELSE 0]
    IN  BNorm([i \in 1..n |-> (a[i] - Limb(b, i) - w[i] + BASE) % BASE])

\* a * s for 0 <= s <= 2^15: the low halves of the limb products plus the
\* high halves one limb up
BMulSmall(a, s) ==
    LET n == Len(a)
    IN  BAdd(BNorm([i \in 1..n |-> (a[i] * s) % BASE]),
             BNorm([i \in 1..(n + 1) |->
                       IF i = 1 THEN 0 ELSE (a[i - 1] * s) \div BASE]))

\* a * 2^t + low for 0 <= t < 15 and 0 <= low < 2^t: no carry arises
BShlOr(a, t, low) ==
    BNorm([i \in 1..(Len(a) + 1) |->
              ((Limb(a, i) * 2 ^ t) % BASE)
              + (Limb(a, i - 1) \div 2 ^ (LimbBits - t))
              + (IF i = 1 THEN low ELSE 0)])

BShlLimbs(a, k) ==
    IF a = <<>> THEN <<>>
    ELSE [i \in 1..(Len(a) + k) |-> IF i <= k THEN 0 ELSE a[i - k]]

RECURSIVE BMulFrom(_, _, _)
BMulFrom(a, b, i) ==
    IF i > Len(b) THEN <<>>
    ELSE BAdd(BShlLimbs(BMulSmall(a, b[i]), i - 1), BMulFrom(a, b, i + 1))

BMul(a, b) == BMulFrom(a, b, 1)

\* a * 2^k
BShl(a, k) == BShlLimbs(BShlOr(a, k % LimbBits, 0), k \div LimbBits)

\* floor(a / 2^k)
BShr(a, k) ==
    LET w == k \div LimbBits
        t == k % LimbBits
    IN  BNorm([i \in 1..(Len(a) - w) |->
                  (a[i + w] \div 2 ^ t)
                  + (Limb(a, i + w + 1) % 2 ^ t) * 2 ^ (LimbBits - t)])

\* for 0 <= n < 2^15
NatBitLen(n) == Cardinality({k \in 0..(LimbBits - 1) : 2 ^ k <= n})

BBitLen(a) ==
    IF a = <<>> THEN 0 ELSE LimbBits * (Len(a) - 1) + NatBitLen(a[Len(a)])

\* bit i (from 0) of a
BBit(a, i) == (Limb(a, i \div LimbBits + 1) \div 2 ^ (i % LimbBits)) % 2

\* for 0 < n < 2^15
NatTrailingZeros(n) == Cardinality({k \in 1..LimbBits : n % 2 ^ k = 0})

\* for a # 0
BTrailingZeros(a) ==
    LET i == CHOOSE i \in 1..Len(a) : a[i] # 0 /\ \A k \in 1..(i - 1) : a[k] = 0
    IN  LimbBits * (i - 1) + NatTrailingZeros(a[i])

\* Long division a = q*b + r, one bit of a at a time from the top.  st is
\* [q, r, k]: quotient and remainder so far and the bit in hand.
BDivStep(st, a, b) ==
    LET r2 == BShlOr(st.r, 1, BBit(a, st.k))
    IN  IF BCmp(r2, b) >= 0
        THEN [q |-> BShlOr(st.q, 1, 1), r |-> BSub(r2, b), k |-> st.k - 1]
        ELSE [q |-> BShlOr(st.q, 1, 0), r |-> r2, k |-> st.k - 1]

\* the bits st.k, ..., lo: the upper half of them, then the lower half
RECURSIVE BDivRange(_, _, _, _)
BDivRange(st, a, b, lo) ==
    IF st.k < lo THEN st
    ELSE IF st.k = lo THEN BDivStep(st, a, b)
    ELSE BDivRange(BDivRange(st, a, b, (st.k + lo + 1) \div 2), a, b, lo)

\* [q, r] with a = q*b + r and r < b, for b > 0
BDivMod(a, b) ==
    BDivRange([q |-> <<>>, r |-> <<>>, k |-> BBitLen(a) - 1], a, b, 0)

\* Integer square root with remainder, n = r*r + rem: two bits of n at a
\* time from the top, as in the schoolbook method.  st is [r, rem, k]: root
\* and remainder so far and the pair of bits in hand.
BSqrtStep(st, n) ==
    LET two   == 2 * BBit(n, 2 * st.k + 1) + BBit(n, 2 * st.k)
        rem2  == BShlOr(st.rem, 2, two)
        trial == BShlOr(st.r, 2, 1)
    IN  IF BCmp(rem2, trial) >= 0
        THEN [r |-> BShlOr(st.r, 1, 1), rem |-> BSub(rem2, trial), k |-> st.k - 1]
        ELSE [r |-> BShlOr(st.r, 1, 0), rem |-> rem2, k |-> st.k - 1]

\* the pairs st.k, ..., lo: the upper half of them, then the lower half
RECURSIVE BSqrtRange(_, _, _)
BSqrtRange(st, n, lo) ==
    IF st.k < lo THEN st
    ELSE IF st.k = lo THEN BSqrtStep(st, n)
    ELSE BSqrtRange(BSqrtRange(st, n, (st.k + lo + 1) \div 2), n, lo)

\* [r, rem] with r = floor(sqrt(n)) and rem = n - r*r
BSqrt(n) ==
    BSqrtRange([r |-> <<>>, rem |-> <<>>, k |-> BBitLen(n) \div 2], n, 0)

(***************************************************************************)
(* IEEE-754 doubles.  [sg, m, e] is sg * m * 2^e; zero is [0, <<>>, 0] and *)
(* a non-zero double has sg in {1, -1} and m odd, so that equal numbers    *)
(* are equal records.  Exponent range and subnormals are not modelled: the *)
(* program's numbers are hit counts and pixel sizes.                       *)
(***************************************************************************)
Precision == 53

FZero == [sg |-> 0, m |-> <<>>, e |-> 0]

\* the number sg * n * 2^e, exactly (n any natural)
FExact(sg, n, e) ==
    IF n = <<>> THEN FZero
    ELSE LET z == BTrailingZeros(n)
         IN  [sg |-> sg, m |-> BShr(n, z), e |-> e + z]

\* sg * n * 2^e rounded to the nearest double, ties to even
FRound(sg, n, e) ==
    LET len == BBitLen(n)
    IN  IF len <= Precision THEN FExact(sg, n, e)
        ELSE LET k    == len - Precision
                 q    == BShr(n, k)
                 rem  == BSub(n, BShl(q, k))
                 half == BShl(<<1>>, k - 1)
                 c    == BCmp(rem, half)
                 up   == c > 0 \/ (c = 0 /\ BBit(q, 0) = 1)
             IN  FExact(sg, IF up THEN BAdd(q, <<1>>) ELSE q, e + k)

FromInt(n) ==
    IF n = 0 THEN FZero
    ELSE FExact(IF n < 0 THEN -1 ELSE 1, BFromNat(Abs(n)), 0)

FNeg(x) == [x EXCEPT !.sg = 0 - x.sg]

\* the exact sum x + y as [sg, n, e] before rounding
FSum(x, y) ==
    IF x.sg = 0 THEN [sg |-> y.sg, n |-> y.m, e |-> y.e]
    ELSE IF y.sg = 0 THEN [sg |-> x.sg, n |-> x.m, e |-> x.e]
    ELSE LET e  == Min2(x.e, y.e)
             xn == BShl(x.m, x.e - e)
             yn == BShl(y.m, y.e - e)
             c  == BCmp(xn, yn)
         IN  IF x.sg = y.sg THEN [sg |-> x.sg, n |-> BAdd(xn, yn), e |-> e]
             ELSE IF c = 0 THEN [sg |-> 0, n |-> <<>>, e |-> 0]
             ELSE IF c > 0 THEN [sg |-> x.sg, n |-> BSub(xn, yn), e |-> e]
             ELSE [sg |-> y.sg, n |-> BSub(yn, xn), e |-> e]

FAdd(x, y) ==
    IF x.sg = 0 /\ y.sg = 0 THEN FZero
    ELSE LET s == FSum(x, y) IN FRound(s.sg, s.n, s.e)
FSub(x, y) == FAdd(x, FNeg(y))

\* -1, 0, 1 as x < y, x = y, x > y
FCmp(x, y) == FSum(x, FNeg(y)).sg
FLt(x, y) == FCmp(x, y) < 0
FLe(x, y) == FCmp(x, y) <= 0
FGt(x, y) == FCmp(x, y) > 0

FMul(x, y) ==
    IF x.sg = 0 \/ y.sg = 0 THEN FZero
    ELSE FRound(x.sg * y.sg, BMul(x.m, y.m), x.e + y.e)

\* x / y for y # 0: the quotient to 56 bits or more, a sticky bit below it
FDiv(x, y) ==
    IF x.sg = 0 \/ y.sg = 0 THEN FZero
    ELSE LET s  == Max2(0, Precision + 3 + BBitLen(y.m) - BBitLen(x.m))
             d  == BDivMod(BShl(x.m, s), y.m)
             n  == BShlOr(d.q, 1, IF d.r = <<>> THEN 0 ELSE 1)
         IN  FRound(x.sg * y.sg, n, x.e - y.e - s - 1)

\* sqrt(x) for x >= 0, correctly rounded
FSqrt(x) ==
    IF x.sg = 0 THEN FZero
    ELSE LET t0 == Max2(0, 2 * Precision + 4 - BBitLen(x.m))
             t  == IF (x.e - t0) % 2 = 0 THEN t0 ELSE t0 + 1
             n  == BShl(x.m, t)
             r  == BSqrt(n)
             st == IF r.rem = <<>> THEN 0 ELSE 1
         IN  FRound(1, BShlOr(r.r, 1, st), (x.e - t) \div 2 - 1)

\* int(x): truncation toward zero
FTrunc(x) ==
    IF x.sg = 0 THEN 0
    ELSE IF x.e >= 0 THEN x.sg * BToNat(BShl(x.m, x.e))
    ELSE x.sg * BToNat(BShr(x.m, 0 - x.e))

\* the double a decimal literal n/d denotes (the nearest one)
Dec(n, d) == FDiv(FromInt(n), FromInt(d))

(***************************************************************************)
(* src/graph/styling.py.  A call returns [error, value, divisions]: the    *)
(* exception it raised ("none" when it returned), the value returned and   *)
(* the number of divisions it performed.  Colours are the hex strings the  *)
(* code returns.                                                           *)
(***************************************************************************)
Return(v, d) == [error |-> "none", value |-> v, divisions |-> d]
Raise(exc, d) == [error |-> exc, value |-> None, divisions |-> d]

\* Python's x / y on floats
PyTrueDiv(x, y) ==
    IF y.sg = 0 THEN Raise("ZeroDivisionError", 1) ELSE Return(FDiv(x, y), 1)

\* log1p(n) for n = 1 .. 64 as the C library returns it (log1p(0) = 0.0)
Log1pTable == <<
    [sg |-> 1, m |-> <<14831, 32244, 14603, 177>>, e |-> -53],
    [sg |-> 1, m |-> <<389, 31405, 10196, 70>>, e |-> -51],
    [sg |-> 1, m |-> <<14831, 32244, 14603, 177>>, e |-> -52],
    [sg |-> 1, m |-> <<3379, 28635, 263, 206>>, e |-> -52],
    [sg |-> 1, m |-> <<4097, 31274, 22039, 114>>, e |-> -51],
    [sg |-> 1, m |-> <<23127, 23652, 2506, 249>>, e |-> -52],
    [sg |-> 1, m |-> <<11123, 32375, 2760, 133>>, e |-> -51],
    [sg |-> 1, m |-> <<779, 30042, 20393, 140>>, e |-> -51],
    [sg |-> 1, m |-> <<10891, 15285, 22371, 73>>, e |-> -50],
    [sg |-> 1, m |-> <<19923, 23487, 12003, 38>>, e |-> -49],
    [sg |-> 1, m |-> <<7805, 31143, 1114, 159>>, e |-> -51],
    [sg |-> 1, m |-> <<3153, 22115, 5136, 164>>, e |-> -51],
    [sg |-> 1, m |-> <<30581, 1461, 3685, 21>>, e |-> -48],
    [sg |-> 1, m |-> <<18463, 29338, 10328, 173>>, e |-> -51],
    [sg |-> 1, m |-> <<14831, 32244, 14603, 177>>, e |-> -51],
    [sg |-> 1, m |-> <<16317, 16890, 21719, 90>>, e |-> -50],
    [sg |-> 1, m |-> <<18627, 14955, 16118, 92>>, e |-> -50],
    [sg |-> 1, m |-> <<11467, 770, 3638, 47>>, e |-> -49],
    [sg |-> 1, m |-> <<25489, 30439, 23817, 191>>, e |-> -51],
    [sg |-> 1, m |-> <<11953, 10463, 27834, 194>>, e |-> -51],
    [sg |-> 1, m |-> <<14521, 7631, 23866, 24>>, e |-> -48],
    [sg |-> 1, m |-> <<6975, 16314, 17759, 12>>, e |-> -47],
    [sg |-> 1, m |-> <<11513, 31012, 12957, 203>>, e |-> -51],
    [sg |-> 1, m |-> <<3379, 28635, 263, 206>>, e |-> -51],
    [sg |-> 1, m |-> <<6861, 21984, 16979, 208>>, e |-> -51],
    [sg |-> 1, m |-> <<14409, 30464, 6007, 13>>, e |-> -47],
    [sg |-> 1, m |-> <<18979, 11564, 8555, 213>>, e |-> -51],
    [sg |-> 1, m |-> <<32287, 6043, 16611, 215>>, e |-> -51],
    [sg |-> 1, m |-> <<22171, 29207, 22171, 217>>, e |-> -51],
    [sg |-> 1, m |-> <<5549, 18577, 29084, 109>>, e |-> -50],
    [sg |-> 1, m |-> <<18539, 32113, 26446, 221>>, e |-> -51],
    [sg |-> 1, m |-> <<14545, 27051, 25443, 223>>, e |-> -51],
    [sg |-> 1, m |-> <<1787, 441, 27641, 112>>, e |-> -50],
    [sg |-> 1, m |-> <<29637, 9759, 17769, 227>>, e |-> -51],
    [sg |-> 1, m |-> <<4097, 31274, 22039, 114>>, e |-> -50],
    [sg |-> 1, m |-> <<18365, 23669, 3235, 231>>, e |-> -51],
    [sg |-> 1, m |-> <<26677, 12656, 3299, 29>>, e |-> -48],
    [sg |-> 1, m |-> <<1771, 26760, 7666, 117>>, e |-> -50],
    [sg |-> 1, m |-> <<29197, 30308, 2892, 236>>, e |-> -51],
    [sg |-> 1, m |-> <<22055, 17806, 27338, 118>>, e |-> -50],
    [sg |-> 1, m |-> <<15661, 10332, 6909, 239>>, e |-> -51],
    [sg |-> 1, m |-> <<27665, 11305, 23488, 240>>, e |-> -51],
    [sg |-> 1, m |-> <<21571, 28152, 6164, 242>>, e |-> -51],
    [sg |-> 1, m |-> <<29289, 15185, 29707, 60>>, e |-> -49],
    [sg |-> 1, m |-> <<4251, 24264, 8462, 61>>, e |-> -49],
    [sg |-> 1, m |-> <<30811, 12176, 6708, 123>>, e |-> -50],
    [sg |-> 1, m |-> <<11997, 7720, 30776, 61>>, e |-> -49],
    [sg |-> 1, m |-> <<23127, 23652, 2506, 249>>, e |-> -51],
    [sg |-> 1, m |-> <<7087, 28504, 12106, 250>>, e |-> -51],
    [sg |-> 1, m |-> <<255, 32418, 20867, 251>>, e |-> -51],
    [sg |-> 1, m |-> <<10569, 21853, 28822, 252>>, e |-> -51],
    [sg |-> 1, m |-> <<15531, 20548, 3233, 254>>, e |-> -51],
    [sg |-> 1, m |-> <<1219, 15329, 26992, 63>>, e |-> -49],
    [sg |-> 1, m |-> <<32499, 13173, 7689, 128>>, e |-> -50],
    [sg |-> 1, m |-> <<9925, 14693, 1661, 8>>, e |-> -46],
    [sg |-> 1, m |-> <<6745, 17243, 12374, 129>>, e |-> -50],
    [sg |-> 1, m |-> <<17997, 2956, 30611, 129>>, e |-> -50],
    [sg |-> 1, m |-> <<10617, 29582, 15767, 130>>, e |-> -50],
    [sg |-> 1, m |-> <<12939, 14538, 623, 131>>, e |-> -50],
    [sg |-> 1, m |-> <<27661, 22052, 17955, 131>>, e |-> -50],
    [sg |-> 1, m |-> <<23787, 2127, 2238, 132>>, e |-> -50],
    [sg |-> 1, m |-> <<6171, 20934, 19015, 132>>, e |-> -50],
    [sg |-> 1, m |-> <<11123, 32375, 2760, 133>>, e |-> -50],
    [sg |-> 1, m |-> <<10613, 10024, 19018, 133>>, e |-> -50]
>>

\* np.log1p(n), n a hit volume
Log1p(n) == IF n = 0 THEN FZero ELSE Log1pTable[n]

\* target_min + normalized * (target_max - target_min), normalized the quotient q
Interpolate(q, target_min, target_max) ==
    IF q.error # "none" THEN q
    ELSE Return(FAdd(target_min, FMul(q.value, FSub(target_max, target_min))), 1)

\* (val - lo) / (hi - lo)
Normalized(val, lo, hi) == PyTrueDiv(FSub(val, lo), FSub(hi, lo))

\* scale_linear without its degenerate-domain guard
scale_linear_unguarded(val, min_val, max_val, target_min, target_max) ==
    Interpolate(PyTrueDiv(FromInt(val - min_val), FromInt(max_val - min_val)),
                target_min, target_max)

scale_linear(val, min_val, max_val, target_min, target_max) ==
    IF max_val = min_val THEN Return(target_min, 0)
    ELSE Interpolate(PyTrueDiv(FromInt(val - min_val), FromInt(max_val - min_val)),
                     target_min, target_max)

scale_log_range(val, min_val, max_val, target_min, target_max) ==
    IF max_val = min_val THEN Return(target_min, 0)
    ELSE Interpolate(Normalized(Log1p(val), Log1p(min_val), Log1p(max_val)),
                     target_min, target_max)

\* scale_sqrt measuring the distance from max_val instead of min_val
scale_sqrt_reversed(val, min_val, max_val, target_min, target_max) ==
    IF max_val = min_val THEN Return(target_min, 0)
    ELSE Interpolate(Normalized(FSqrt(FromInt(val)), FSqrt(FromInt(max_val)),
                                FSqrt(FromInt(min_val))),
                     target_min, target_max)

scale_sqrt(val, min_val, max_val, target_min, target_max) ==
    IF max_val = min_val THEN Return(target_min, 0)
    ELSE Interpolate(Normalized(FSqrt(FromInt(val)), FSqrt(FromInt(min_val)),
                                FSqrt(FromInt(max_val))),
                     target_min, target_max)

\* format(n, '02x')
RECURSIVE HexDigits(_)
HexDigits(n) ==
    IF n < 16 THEN SubSeq("0123456789abcdef", n + 1, n + 1)
    ELSE HexDigits(n \div 16)
         \o SubSeq("0123456789abcdef", (n % 16) + 1, (n % 16) + 1)

Format02x(n) ==
    IF n < 0 THEN "-" \o HexDigits(0 - n)
    ELSE IF n < 16 THEN "0" \o HexDigits(n)
    ELSE HexDigits(n)

HexColor(r, g, b) == "#" \o Format02x(r) \o Format02x(g) \o Format02x(b)

\* int(a + k * local_ratio)
Channel(a, k, local_ratio) == FTrunc(FAdd(FromInt(a), FMul(FromInt(k), local_ratio)))

\* the colour local_ratio of the way from the colour lo to the colour hi
Blend(lo, hi, local_ratio) ==
    HexColor(Channel(lo[1], hi[1] - lo[1], local_ratio),
             Channel(lo[2], hi[2] - lo[2], local_ratio),
             Channel(lo[3], hi[3] - lo[3], local_ratio))

\* lines 56-75: the colour of a ratio
SmoothColor(ratio) ==
    IF FLt(ratio, Dec(33, 100))
    THEN Blend(<<46, 204, 113>>, <<241, 196, 15>>, FDiv(ratio, Dec(33, 100)))
    ELSE IF FLt(ratio, Dec(67, 100))
    THEN Blend(<<241, 196, 15>>, <<230, 126, 34>>,
               FDiv(FSub(ratio, Dec(33, 100)), Dec(34, 100)))
    ELSE Blend(<<230, 126, 34>>, <<231, 76, 60>>,
               FDiv(FSub(ratio, Dec(67, 100)), Dec(33, 100)))

SmoothOf(q) == IF q.error # "none" THEN q ELSE Return(SmoothColor(q.value), 2)

get_smooth_gradient(value, min_val, max_val) ==
    IF max_val = min_val THEN Return("#2ecc71", 0)
    ELSE SmoothOf(PyTrueDiv(FromInt(value - min_val), FromInt(max_val - min_val)))

\* the buckets closed at their upper end: ratio <= threshold
get_color_gradient_closed(hits, max_hits, thresholds) ==
    IF max_hits = 0 THEN Return("#2ecc71", 0)
    ELSE LET ratio == FDiv(FromInt(hits), FromInt(max_hits))
         IN  IF FLe(ratio, thresholds[1]) THEN Return("#2ecc71", 1)
             ELSE IF FLe(ratio, thresholds[2]) THEN Return("#f39c12", 1)
             ELSE Return("#e74c3c", 1)

get_color_gradient(hits, max_hits, thresholds) ==
    IF max_hits = 0 THEN Return("#2ecc71", 0)
    ELSE LET ratio == FDiv(FromInt(hits), FromInt(max_hits))
         IN  IF Len(thresholds) # 2 THEN Raise("ValueError", 1)
             ELSE IF FLt(ratio, thresholds[1]) THEN Return("#2ecc71", 1)
             ELSE IF FLt(ratio, thresholds[2]) THEN Return("#f39c12", 1)
             ELSE Return("#e74c3c", 1)

get_heatmap_color(value, max_val, thresholds) ==
    IF max_val = 0 THEN Return("#2ecc71", 0)
    ELSE LET ratio == FDiv(FromInt(value), FromInt(max_val))
         IN  IF Len(thresholds) < 1 THEN Raise("IndexError", 1)
             ELSE IF FLt(ratio, thresholds[1]) THEN Return("#2ecc71", 1)
             ELSE IF Len(thresholds) < 2 THEN Raise("IndexError", 1)
             ELSE IF FLt(ratio, thresholds[2]) THEN Return("#f1c40f", 1)
             ELSE IF Len(thresholds) < 3 THEN Raise("IndexError", 1)
             ELSE IF FLt(ratio, thresholds[3]) THEN Return("#e67e22", 1)
             ELSE Return("#e74c3c", 1)

(***************************************************************************)
(* Python objects.  A value is a number [num], a string [str], a boolean   *)
(* [bool], a tuple [tuple], None [none] or a reference [ref] to a mutable  *)
(* object of the heap; an object is a dict [keys, at] (keys in insertion   *)
(* order) or a list [items].  Two names for one address are aliases.       *)
(***************************************************************************)
Num(f) == [num |-> f]
PyInt(n) == [num |-> FromInt(n)]
Str(s) == [str |-> s]
Bool(b) == [bool |-> b]
Tup(t) == [tuple |-> t]
Ref(a) == [ref |-> a]
PyNone == [none |-> None]

\* the dict literal {k1: v1, k2: v2, ...} from its <<k, v>> items
Dict(pairs) ==
    [keys |-> [i \in 1..Len(pairs) |-> pairs[i][1]],
     at   |-> [k \in {pairs[i][1] : i \in 1..Len(pairs)} |->
                 pairs[CHOOSE i \in 1..Len(pairs) : pairs[i][1] = k][2]]]

List(items) == [items |-> items]

IsDict(obj) == "at" \in DOMAIN obj
IsRef(v) == "ref" \in DOMAIN v

\* k in d
Has(d, k) == k \in DOMAIN d.at

\* d.get(k, default)
DictGet(d, k, default) == IF Has(d, k) THEN d.at[k] ELSE default

\* d after d[k] = v
DictSet(d, k, v) ==
    [keys |-> IF Has(d, k) THEN d.keys ELSE Append(d.keys, k),
     at   |-> (k :> v) @@ d.at]

\* d after d.update(e)
DictUpdate(d, e) ==
    [keys |-> d.keys \o SelectSeq(e.keys, LAMBDA k : ~Has(d, k)),
     at   |-> e.at @@ d.at]

\* the heap after obj[k] = v on the dict at address a
Store(h, a, k, v) == [h EXCEPT ![a] = DictSet(h[a], k, v)]

\* the address the next allocation returns
New(h) == Len(h) + 1

(***************************************************************************)
(* src/config/presets.py: the registry PRESETS as it is laid out when the  *)
(* module is imported.  Address 1 is PRESETS, 2..5 its four entries, the   *)
(* rest the lists and dicts nested in them.                                *)
(***************************************************************************)
PRESETS == 1

Theme(height, width, bgcolor, font_color) ==
    Dict(<< <<"height", Str(height)>>, <<"width", Str(width)>>,
            <<"bgcolor", Str(bgcolor)>>, <<"font_color", Str(font_color)>> >>)

RegistryHeap ==
    << \* 1: PRESETS
       Dict(<< <<"intensity", Ref(2)>>, <<"heatmap", Ref(3)>>,
               <<"micro", Ref(4)>>, <<"balanced", Ref(5)>> >>),
       \* 2: PRESETS['intensity']
       Dict(<< <<"name", Str("Intensity Map")>>,
               <<"description", Str("Balanced visualization with intensity-based coloring")>>,
               <<"default_output", Str("firewall_intensity_map.html")>>,
               <<"top_n", PyInt(400)>>,
               <<"node_sizing", Str("combined")>>,
               <<"node_size_range", Ref(6)>>,
               <<"edge_width_range", Ref(7)>>,
               <<"edge_scale_method", Str("sqrt_simple")>>,
               <<"color_mode", Str("gradient")>>,
               <<"color_thresholds", Tup(<<Dec(2, 10), Dec(6, 10)>>)>>,
               <<"theme", Ref(8)>>,
               <<"physics", Ref(9)>> >>),
       \* 3: PRESETS['heatmap']
       Dict(<< <<"name", Str("Security Heatmap")>>,
               <<"description", Str("Advanced heatmap with color-coded nodes by intensity")>>,
               <<"default_output", Str("firewall_security_heatmap.html")>>,
               <<"top_n", PyInt(350)>>,
               <<"node_sizing", Str("separate")>>,
               <<"node_size_range", Ref(10)>>,
               <<"target_size_range", Ref(11)>>,
               <<"node_scale_method", Str("linear")>>,
               <<"edge_width_range", Ref(12)>>,
               <<"edge_scale_method", Str("linear")>>,
               <<"color_mode", Str("heatmap")>>,
               <<"color_thresholds", Tup(<<Dec(15, 100), Dec(4, 10), Dec(7, 10)>>)>>,
               <<"theme", Ref(13)>>,
               <<"physics", Ref(14)>> >>),
       \* 4: PRESETS['micro']
       Dict(<< <<"name", Str("Micro-Scale Heatmap")>>,
               <<"description", Str("Compact visualization with micro-scale nodes for high-density data")>>,
               <<"default_output", Str("firewall_micro_map.html")>>,
               <<"top_n", PyInt(400)>>,
               <<"node_sizing", Str("separate")>>,
               <<"node_size_range", Ref(15)>>,
               <<"target_size_range", Ref(16)>>,
               <<"node_scale_method", Str("sqrt")>>,
               <<"label_threshold", Num(Dec(1, 10))>>,
               <<"edge_width_range", Ref(17)>>,
               <<"edge_scale_method", Str("linear")>>,
               <<"edge_opacity", Num(Dec(4, 10))>>,
               <<"color_mode", Str("heatmap")>>,
               <<"color_thresholds", Tup(<<Dec(2, 10), Dec(5, 10), Dec(8, 10)>>)>>,
               <<"theme", Ref(18)>>,
               <<"physics", Ref(19)>> >>),
       \* 5: PRESETS['balanced']
       Dict(<< <<"name", Str("Balanced Clean Map")>>,
               <<"description", Str("Clean readable version with balanced sizing and spacing")>>,
               <<"default_output", Str("firewall_balanced_map.html")>>,
               <<"top_n", PyInt(350)>>,
               <<"node_sizing", Str("combined")>>,
               <<"node_size_range", Ref(20)>>,
               <<"edge_width_range", Ref(21)>>,
               <<"edge_scale_method", Str("linear")>>,
               <<"color_mode", Str("gradient")>>,
               <<"color_thresholds", Tup(<<Dec(2, 10), Dec(6, 10)>>)>>,
               <<"theme", Ref(22)>>,
               <<"physics", Ref(23)>> >>),
       \* 6..9: intensity
       List(<<PyInt(3), PyInt(15)>>),
       List(<<PyInt(1), PyInt(6)>>),
       Theme("900px", "100%", "#0b0e11", "white"),
       Dict(<< <<"gravitational_constant", PyInt(-20000)>>,
               <<"central_gravity", Num(Dec(8, 10))>>,
               <<"spring_length", PyInt(100)>>,
               <<"edge_smooth", Bool(FALSE)>>,
               <<"arrow_scale", Num(Dec(4, 10))>>,
               <<"stabilization_iterations", PyInt(40)>> >>),
       \* 10..14: heatmap
       List(<<PyInt(3), PyInt(14)>>),
       List(<<PyInt(4), PyInt(15)>>),
       List(<<PyInt(1), PyInt(7)>>),
       Theme("950px", "100%", "#0d1117", "#f0f6fc"),
       Dict(<< <<"gravitational_constant", PyInt(-40000)>>,
               <<"central_gravity", Num(Dec(5, 10))>>,
               <<"spring_length", PyInt(180)>>,
               <<"spring_constant", Num(Dec(5, 100))>>,
               <<"damping", Num(Dec(4, 10))>>,
               <<"edge_smooth", Bool(FALSE)>>,
               <<"arrow_scale", Num(Dec(4, 10))>>,
               <<"stabilization_iterations", PyInt(60)>> >>),
       \* 15..19: micro
       List(<<PyInt(2), PyInt(8)>>),
       List(<<PyInt(6), PyInt(6)>>),
       List(<<Num(Dec(5, 10)), PyInt(4)>>),
       Theme("1280px", "100%", "#ffffff", "#8b949e"),
       Dict(<< <<"gravitational_constant", PyInt(-50000)>>,
               <<"central_gravity", Num(Dec(3, 10))>>,
               <<"spring_length", PyInt(200)>>,
               <<"spring_constant", Num(Dec(5, 100))>>,
               <<"damping", Num(Dec(5, 10))>>,
               <<"edge_smooth", Bool(FALSE)>>,
               <<"arrow_scale", Num(Dec(2, 10))>>,
               <<"stabilization_iterations", PyInt(50)>> >>),
       \* 20..23: balanced
       List(<<PyInt(3), PyInt(12)>>),
       List(<<PyInt(1), PyInt(6)>>),
       Theme("900px", "100%", "#111111", "#ecf0f1"),
       Dict(<< <<"gravitational_constant", PyInt(-30000)>>,
               <<"central_gravity", Num(Dec(3, 10))>>,
               <<"spring_length", PyInt(150)>>,
               <<"spring_constant", Num(Dec(5, 100))>>,
               <<"damping", Num(Dec(3, 10))>>,
               <<"edge_smooth", Bool(FALSE)>>,
               <<"arrow_scale", Num(Dec(3, 10))>>,
               <<"stabilization_iterations", PyInt(50)>> >> ) >>

\* sep.join(keys)
RECURSIVE PyJoin(_, _)
PyJoin(sep, keys) ==
    IF keys = <<>> THEN ""
    ELSE IF Len(keys) = 1 THEN keys[1]
    ELSE keys[1] \o sep \o PyJoin(sep, Tail(keys))

\* get_preset that falls back to the first preset for an unknown name
get_preset_or_first(h, name) ==
    [h |-> Append(h, h[h[PRESETS].at[IF Has(h[PRESETS], name) THEN name
                                     ELSE h[PRESETS].keys[1]].ref]),
     ret |-> New(h), error |-> "none", message |-> ""]

\* get_preset(name): [h, ret, error, message]
get_preset(h, name) ==
    IF ~Has(h[PRESETS], name)
    THEN [h |-> h, ret |-> NULL, error |-> "ValueError",
          message |-> "Unknown preset '" \o name \o "'. Available: "
                      \o PyJoin(", ", h[PRESETS].keys)]
    ELSE [h |-> Append(h, h[h[PRESETS].at[name].ref]), ret |-> New(h),
          error |-> "none", message |-> ""]

(***************************************************************************)
(* Python strings: str.lower(), str.replace(old, new) for one character,   *)
(* and the substring test.                                                 *)
(***************************************************************************)
LowerChar(c) ==
    LET upper == "ABCDEFGHIJKLMNOPQRSTUVWXYZ"
        lower == "abcdefghijklmnopqrstuvwxyz"
        at    == {i \in 1..26 : SubSeq(upper, i, i) = c}
    IN  IF at = {} THEN c ELSE LET i == CHOOSE i \in at : TRUE IN SubSeq(lower, i, i)

RECURSIVE PyLowerRange(_, _, _)
PyLowerRange(s, lo, hi) ==
    IF lo > hi THEN ""
    ELSE IF lo = hi THEN LowerChar(SubSeq(s, lo, lo))
    ELSE PyLowerRange(s, lo, (lo + hi) \div 2)
         \o PyLowerRange(s, (lo + hi) \div 2 + 1, hi)

PyLower(s) == PyLowerRange(s, 1, Len(s))

RECURSIVE PyReplaceRange(_, _, _, _, _)
PyReplaceRange(s, old, new, lo, hi) ==
    IF lo > hi THEN ""
    ELSE IF lo = hi
    THEN (IF SubSeq(s, lo, lo) = old THEN new ELSE SubSeq(s, lo, lo))
    ELSE PyReplaceRange(s, old, new, lo, (lo + hi) \div 2)
         \o PyReplaceRange(s, old, new, (lo + hi) \div 2 + 1, hi)

PyReplace(s, old, new) == PyReplaceRange(s, old, new, 1, Len(s))

\* sub in s
PyIn(sub, s) ==
    \/ sub = ""
    \/ \E i \in 1..(Len(s) - Len(sub) + 1) : SubSeq(s, i, i + Len(sub) - 1) = sub

(***************************************************************************)
(* src/config/config_loader.py: apply_to_preset, statement by statement,   *)
(* on the heap h.  c is the address of the local config, self the address  *)
(* of self.config, pc the address of the argument.                         *)
(***************************************************************************)
\* max(1, x): x when x > 1, otherwise 1
PyMax1(x) == IF FGt(x, FromInt(1)) THEN x ELSE FromInt(1)

\* lines 77-85: config[key] = [max(1, size * node_mult) for size in config[key]]
MultiplySizes(h, c, key, node_mult) ==
    IF ~Has(h[c], key) THEN h
    ELSE LET old == h[h[c].at[key].ref].items
             new == [i \in 1..Len(old) |-> Num(PyMax1(FMul(old[i].num, node_mult)))]
         IN  Store(Append(h, List(new)), c, key, Ref(New(h)))

\* the edge widths clamped like the node sizes
MultiplyWidthsClamped(h, c, key, edge_mult) ==
    IF ~Has(h[c], key) THEN h
    ELSE LET old == h[h[c].at[key].ref].items
             new == [i \in 1..Len(old) |-> Num(PyMax1(FMul(old[i].num, edge_mult)))]
         IN  Store(Append(h, List(new)), c, key, Ref(New(h)))

\* lines 88-92: config[key] = [width * edge_mult for width in config[key]]
MultiplyWidths(h, c, key, edge_mult) ==
    IF ~Has(h[c], key) THEN h
    ELSE LET old == h[h[c].at[key].ref].items
             new == [i \in 1..Len(old) |-> Num(FMul(old[i].num, edge_mult))]
         IN  Store(Append(h, List(new)), c, key, Ref(New(h)))

KnownPresetKeys == {"intensity", "heatmap", "micro", "balanced"}

\* the loop of lines 99-104 without its break: every matching bundle is merged
RECURSIVE UpdateEach(_, _, _, _, _)
UpdateEach(h, c, preset_overrides, preset_name, i) ==
    IF i > Len(preset_overrides.keys) THEN h
    ELSE LET key == preset_overrides.keys[i]
             h1  == IF /\ key \in KnownPresetKeys
                       /\ PyIn(key, preset_name) \/ PyIn(preset_name, key)
                    THEN [h EXCEPT ![c] = DictUpdate(h[c], h[preset_overrides.at[key].ref])]
                    ELSE h
         IN  UpdateEach(h1, c, preset_overrides, preset_name, i + 1)

MergeEveryOverride(h, c, self, pc) ==
    LET presets == DictGet(h[self], "presets", PyNone)
        preset_name == PyReplace(PyLower(DictGet(h[pc], "name", Str("")).str), " ", "_")
    IN  IF ~IsRef(presets) THEN h
        ELSE UpdateEach(h, c, h[presets.ref], preset_name, 1)

\* lines 95-104: the first override bundle whose key matches is merged
MergeOverride(h, c, self, pc) ==
    LET presets == DictGet(h[self], "presets", PyNone)
        preset_name == PyReplace(PyLower(DictGet(h[pc], "name", Str("")).str), " ", "_")
    IN  IF ~IsRef(presets) THEN h
        ELSE LET preset_overrides == h[presets.ref]
                 hit == {i \in 1..Len(preset_overrides.keys) :
                           LET key == preset_overrides.keys[i]
                           IN  /\ key \in KnownPresetKeys
                               /\ PyIn(key, preset_name) \/ PyIn(preset_name, key)}
             IN  IF hit = {} THEN h
                 ELSE LET first == CHOOSE i \in hit : \A j \in hit : i <= j
                          override == h[preset_overrides.at[preset_overrides.keys[first]].ref]
                      IN  [h EXCEPT ![c] = DictUpdate(h[c], override)]

\* lines 108-109, 114-115, 120-121, 150-151: if key not in config: config[key] = {}
EnsureDict(h, c, key) ==
    IF Has(h[c], key) THEN h
    ELSE Store(Append(h, Dict(<<>>)), c, key, Ref(New(h)))

\* lines 107-110, 113-116, 149-152: config[key].update(self.config[key])
UpdateSection(h, c, self, key) ==
    IF ~Has(h[self], key) THEN h
    ELSE LET h1 == EnsureDict(h, c, key)
             target == h1[c].at[key].ref
         IN  [h1 EXCEPT ![target] = DictUpdate(h1[target], h1[h1[self].at[key].ref])]

\* lines 119-126
ApplyCanvas(h, c, self) ==
    IF ~Has(h[self], "canvas") THEN h
    ELSE LET h1 == EnsureDict(h, c, "theme")
             theme == h1[c].at["theme"].ref
             canvas == h1[h1[self].at["canvas"].ref]
             h2 == IF Has(canvas, "height")
                   THEN Store(h1, theme, "height", canvas.at["height"]) ELSE h1
         IN  IF Has(canvas, "width")
             THEN Store(h2, theme, "width", canvas.at["width"]) ELSE h2

\* the truth value of self.config.get(key): a non-empty dict
Truthy(h, self, key) ==
    /\ Has(h[self], key)
    /\ IsRef(h[self].at[key])
    /\ h[h[self].at[key].ref].keys # <<>>

\* config[key] = settings[skey] whenever skey is given
CopySettingAlways(h, c, settings, skey, key, only_if_missing) ==
    IF Has(settings, skey) THEN Store(h, c, key, settings.at[skey]) ELSE h

\* config[key] = settings[skey] when skey is given and, for a default, key is not set
CopySetting(h, c, settings, skey, key, only_if_missing) ==
    IF Has(settings, skey) /\ (only_if_missing => ~Has(h[c], key))
    THEN Store(h, c, key, settings.at[skey]) ELSE h

\* lines 129-132
ApplyNodeSettings(h, c, self) ==
    IF ~Truthy(h, self, "node_settings") THEN h
    ELSE CopySetting(h, c, h[h[self].at["node_settings"].ref],
                     "default_size_range", "node_size_range", TRUE)

\* lines 136-146
ApplyEdgeSettings(h, c, self) ==
    IF ~Truthy(h, self, "edge_settings") THEN h
    ELSE LET es == h[h[self].at["edge_settings"].ref]
             h1 == CopySetting(h, c, es, "default_width_range", "edge_width_range", TRUE)
             h2 == CopySetting(h1, c, es, "opacity", "edge_opacity", TRUE)
             h3 == CopySetting(h2, c, es, "scale_arrows_with_edges",
                               "scale_arrows_with_edges", FALSE)
         IN  CopySetting(h3, c, es, "base_arrow_scale", "base_arrow_scale", FALSE)

\* apply_to_preset(preset_config): [h, ret, error]
apply_to_preset(h, self, pc) ==
    IF ~IsDict(h[self])
    THEN [h |-> Append(h, h[pc]), ret |-> NULL, error |-> "AttributeError"]
    ELSE
    LET c  == New(h)
        h0 == Append(h, h[pc])
        node_mult == DictGet(h[self], "node_size_multiplier", PyInt(1)).num
        edge_mult == DictGet(h[self], "edge_width_multiplier", PyInt(1)).num
        h1 == MultiplySizes(h0, c, "node_size_range", node_mult)
        h2 == MultiplySizes(h1, c, "target_size_range", node_mult)
        h3 == MultiplyWidths(h2, c, "edge_width_range", edge_mult)
        h4 == MergeOverride(h3, c, self, pc)
        h5 == UpdateSection(h4, c, self, "physics")
        h6 == UpdateSection(h5, c, self, "theme")
        h7 == ApplyCanvas(h6, c, self)
        h8 == ApplyNodeSettings(h7, c, self)
        h9 == ApplyEdgeSettings(h8, c, self)
    IN  [h |-> UpdateSection(h9, c, self, "hostname_labels"), ret |-> c,
         error |-> "none"]

(***************************************************************************)
(* The parts of the state a specification does not exercise.               *)
(***************************************************************************)
NoCall == [fn |-> "none", val |-> 0, out |-> Return(None, 0)]

ConfigIdle ==
    /\ heap = <<>>
    /\ loader = NULL
    /\ preset_config = NULL
    /\ config = NULL
    /\ raised = "none"
    /\ calls = 0

StylingIdle ==
    sty = [min_val |-> 0, max_val |-> 0, target_min |-> FZero,
           target_max |-> FZero, a |-> NoCall, b |-> NoCall]

FileIdle == config_file = PyNone

NetIdle == net = PyNone

DataIdle ==
    /\ df = PyNone
    /\ top_n = PyNone
    /\ viz_data = PyNone
    /\ risk_report = PyNone
    /\ hostname_resolver = PyNone
    /\ graph = PyNone

(***************************************************************************)
(* The scaling functions: a domain and a target range, then two calls of   *)
(* one of the functions.  sty.a is the first call, sty.b the second.       *)
(***************************************************************************)
MaxVal == 3

\* target ranges the overlay hands to the scaling functions: the registry's
\* [3, 15], [0.5, 4] and [6, 6]; [1, 1.5] (node_size_multiplier 0.1 on [3, 15])
\* and [-1, -6] (edge_width_multiplier -1 on [1, 6])
TargetRanges ==
    { <<FromInt(3), FromInt(15)>>, <<Dec(1, 2), FromInt(4)>>,
      <<FromInt(6), FromInt(6)>>, <<FromInt(1), Dec(3, 2)>>,
      <<FromInt(-1), FromInt(-6)>> }

InitScale ==
    /\ ConfigIdle
    /\ FileIdle
    /\ NetIdle
    /\ DataIdle
    /\ \E lo \in 0..MaxVal, hi \in 0..MaxVal, rng \in TargetRanges :
          /\ lo <= hi
          /\ sty = [min_val |-> lo, max_val |-> hi, target_min |-> rng[1],
                    target_max |-> rng[2], a |-> NoCall, b |-> NoCall]

\* record one call: the first, or the second call of the same function
Record(fn, v, out) ==
    /\ sty.b.fn = "none"
    /\ sty.a.fn \in {"none", fn}
    /\ sty' = IF sty.a.fn = "none"
              THEN [sty EXCEPT !.a = [fn |-> fn, val |-> v, out |-> out]]
              ELSE [sty EXCEPT !.b = [fn |-> fn, val |-> v, out |-> out]]
    /\ UNCHANGED <<heap, loader, preset_config, config, raised, calls, df,
                   top_n, viz_data, risk_report,
                   hostname_resolver, graph,
                   config_file, net>>

ScaleLinear ==
    \E v \in 0..MaxVal :
        Record("scale_linear", v,
               scale_linear(v, sty.min_val, sty.max_val, sty.target_min, sty.target_max))

ScaleSqrt ==
    \E v \in 0..MaxVal :
        Record("scale_sqrt", v,
               scale_sqrt(v, sty.min_val, sty.max_val, sty.target_min, sty.target_max))

ScaleLogRange ==
    \E v \in 0..MaxVal :
        Record("scale_log_range", v,
               scale_log_range(v, sty.min_val, sty.max_val, sty.target_min, sty.target_max))

NextScale == ScaleLinear \/ ScaleSqrt \/ ScaleLogRange

SpecScale == InitScale /\ [][NextScale]_vars

Calls == {sty.a, sty.b} \ {NoCall}

InDomain(v) == sty.min_val <= v /\ v <= sty.max_val

\* C2: when domain_min = domain_max, each of scale_linear, scale_sqrt and
\* scale_log_range returns target_min itself, for every value and every
\* target range, and divides nothing.
C2_DegenerateReturnsTargetMin ==
    \A c \in Calls :
        sty.min_val = sty.max_val =>
            /\ c.out.error = "none"
            /\ c.out.value = sty.target_min
            /\ c.out.divisions = 0

\* C2 witness: the three functions were called on a degenerate domain with a
\* value other than its bound; here scale_sqrt, twice.
C2_Witness ==
    /\ sty.min_val = sty.max_val
    /\ sty.a.fn = "scale_sqrt" /\ sty.b.fn = "scale_sqrt"
    /\ sty.a.val # sty.min_val
    /\ sty.target_min # sty.target_max
    /\ sty.b.out.value = sty.target_min

GradientDomains ==
    { <<0, 100>>, <<0, 200>>, <<10, 110>>, <<100, 300>>, <<0, 3>>, <<1, 4>>,
      <<5, 5>>, <<0, 0>> }

GradientValues == {0, 1, 2, 3, 4, 5, 10, 15, 20, 33, 40, 43, 50, 60, 66, 67, 70,
                   76, 77, 80, 100, 110, 134, 166, 200, 234, 300}

\* color_thresholds of the registry: intensity, heatmap, micro
Thresholds2 == <<Dec(2, 10), Dec(6, 10)>>
Thresholds3 == { <<Dec(15, 100), Dec(4, 10), Dec(7, 10)>>,
                 <<Dec(2, 10), Dec(5, 10), Dec(8, 10)>> }

InitColor ==
    /\ ConfigIdle
    /\ FileIdle
    /\ NetIdle
    /\ DataIdle
    /\ \E d \in GradientDomains :
          sty = [min_val |-> d[1], max_val |-> d[2], target_min |-> FZero,
                 target_max |-> FZero, a |-> NoCall, b |-> NoCall]

RecordColor(fn, v, th, out) ==
    /\ sty.a.fn = "none"
    /\ sty' = [sty EXCEPT !.a = [fn |-> fn, val |-> v, out |-> out],
                          !.target_min = th]
    /\ UNCHANGED <<heap, loader, preset_config, config, raised, calls, df,
                   top_n, viz_data, risk_report,
                   hostname_resolver, graph,
                   config_file, net>>

SmoothGradient ==
    \E v \in GradientValues :
        /\ InDomain(v)
        /\ RecordColor("get_smooth_gradient", v, FZero,
                       get_smooth_gradient(v, sty.min_val, sty.max_val))

ColorGradient ==
    \E v \in GradientValues :
        /\ v <= sty.max_val
        /\ RecordColor("get_color_gradient", v, Thresholds2,
                       get_color_gradient(v, sty.max_val, Thresholds2))

HeatmapColor ==
    \E v \in GradientValues, th \in Thresholds3 :
        /\ v <= sty.max_val
        /\ RecordColor("get_heatmap_color", v, th,
                       get_heatmap_color(v, sty.max_val, th))

NextColor == SmoothGradient \/ ColorGradient \/ HeatmapColor

SpecColor == InitColor /\ [][NextColor]_vars

\* the ratio (value - min_val) / (max_val - min_val) of the call is n/100
RatioIs(n) ==
    /\ sty.max_val # sty.min_val
    /\ 100 * (sty.a.val - sty.min_val) = n * (sty.max_val - sty.min_val)

\* C4: get_smooth_gradient returns exactly green (46,204,113) at ratio 0.0,
\* yellow (241,196,15) at ratio 0.33, orange (230,126,34) at ratio 0.67 and
\* red (231,76,60) at ratio 1.0.
C4_StopsExact ==
    sty.a.fn = "get_smooth_gradient" =>
        /\ RatioIs(0) => sty.a.out.value = HexColor(46, 204, 113)
        /\ RatioIs(33) => sty.a.out.value = HexColor(241, 196, 15)
        /\ RatioIs(67) => sty.a.out.value = HexColor(230, 126, 34)
        /\ RatioIs(100) => sty.a.out.value = HexColor(231, 76, 60)

(***************************************************************************)
(* The configuration: the registry, the global settings config.yaml holds  *)
(* (ConfigLoader.config), then calls of get_preset and apply_to_preset.    *)
(***************************************************************************)
MaxCalls == 3

\* the address of the global settings (ConfigLoader.config), right after the
\* 23 objects of the registry
Settings == 24

\* settings holding multipliers only: (node_size_multiplier, edge_width_multiplier)
MultiplierPairs ==
    { <<FromInt(2), FromInt(2)>>, <<Dec(1, 10), Dec(1, 10)>>,
      <<FromInt(1), FromInt(-1)>>, <<FromInt(-1), FromInt(1)>>,
      <<FromInt(0), FromInt(0)>>, <<Dec(3, 2), Dec(1, 2)>> }

MultiplierSettings ==
    { << Dict(<< <<"node_size_multiplier", Num(m[1])>>,
                 <<"edge_width_multiplier", Num(m[2])>> >>) >> : m \in MultiplierPairs }

\* ConfigLoader._get_defaults()
DefaultSettings ==
    << Dict(<< <<"node_size_multiplier", PyInt(1)>>,
               <<"edge_width_multiplier", PyInt(1)>>,
               <<"default_input", Str("sophos_data.csv")>>,
               <<"default_risk_report", Str("high_risk_attackers.csv")>>,
               <<"hostname_labels", Ref(Settings + 1)>> >>),
       Dict(<< <<"show_in_labels", Bool(FALSE)>>,
               <<"prefer_hostname", Bool(FALSE)>>,
               <<"show_both", Bool(FALSE)>> >>) >>

\* settings with sections: physics and theme; canvas; override bundles;
\* node and edge settings with hostname labels
SectionSettings ==
    { << Dict(<<>>) >>,
      << Dict(<< <<"physics", Ref(Settings + 1)>>, <<"theme", Ref(Settings + 2)>> >>),
         Dict(<< <<"spring_length", PyInt(250)>>, <<"damping", Num(Dec(9, 10))>> >>),
         Dict(<< <<"bgcolor", Str("#000000")>> >>) >>,
      << Dict(<< <<"canvas", Ref(Settings + 1)>> >>),
         Dict(<< <<"height", Str("600px")>>, <<"width", Str("80%")>> >>) >>,
      << Dict(<< <<"node_size_multiplier", PyInt(2)>>,
                 <<"presets", Ref(Settings + 1)>> >>),
         Dict(<< <<"heatmap", Ref(Settings + 2)>>, <<"micro", Ref(Settings + 4)>> >>),
         Dict(<< <<"top_n", PyInt(0)>>, <<"node_size_range", Ref(Settings + 3)>> >>),
         List(<<PyInt(20), PyInt(10)>>),
         Dict(<< <<"top_n", PyInt(50)>>, <<"theme", Ref(Settings + 5)>> >>),
         Dict(<< <<"bgcolor", Str("#202020")>> >>) >>,
      << Dict(<< <<"node_settings", Ref(Settings + 1)>>,
                 <<"edge_settings", Ref(Settings + 3)>>,
                 <<"hostname_labels", Ref(Settings + 5)>> >>),
         Dict(<< <<"default_size_range", Ref(Settings + 2)>> >>),
         List(<<PyInt(5), PyInt(25)>>),
         Dict(<< <<"default_width_range", Ref(Settings + 4)>>,
                 <<"opacity", Num(Dec(8, 10))>>,
                 <<"scale_arrows_with_edges", Bool(TRUE)>>,
                 <<"base_arrow_scale", Num(Dec(5, 10))>> >>),
         List(<<PyInt(2), PyInt(8)>>),
         Dict(<< <<"show_in_labels", Bool(TRUE)>>, <<"show_both", Bool(TRUE)>> >>) >> }

\* settings whose override bundles compete: 'micro' and 'heatmap' both match
\* the preset named 'Micro-Scale Heatmap', 'scale' is not a preset key; a
\* bundle that supplies what node_settings / edge_settings supply as well;
\* and a bundle with a theme section next to global theme and canvas sections
OverrideSettings ==
    { << Dict(<< <<"presets", Ref(Settings + 1)>> >>),
         Dict(<< <<"scale", Ref(Settings + 2)>>, <<"micro", Ref(Settings + 3)>>,
                 <<"heatmap", Ref(Settings + 5)>> >>),
         Dict(<< <<"top_n", PyInt(7)>> >>),
         Dict(<< <<"top_n", PyInt(50)>>, <<"theme", Ref(Settings + 4)>> >>),
         Dict(<< <<"bgcolor", Str("#202020")>> >>),
         Dict(<< <<"top_n", PyInt(0)>>, <<"color_mode", Str("gradient")>> >>) >>,
      << Dict(<< <<"presets", Ref(Settings + 1)>>,
                 <<"node_settings", Ref(Settings + 4)>>,
                 <<"edge_settings", Ref(Settings + 6)>> >>),
         Dict(<< <<"intensity", Ref(Settings + 2)>> >>),
         Dict(<< <<"scale_arrows_with_edges", Bool(FALSE)>>,
                 <<"base_arrow_scale", PyInt(2)>>,
                 <<"edge_opacity", Num(Dec(9, 10))>>,
                 <<"edge_width_range", Ref(Settings + 3)>> >>),
         List(<<PyInt(1), PyInt(2)>>),
         Dict(<< <<"default_size_range", Ref(Settings + 5)>> >>),
         List(<<PyInt(5), PyInt(25)>>),
         Dict(<< <<"default_width_range", Ref(Settings + 7)>>,
                 <<"opacity", Num(Dec(8, 10))>>,
                 <<"scale_arrows_with_edges", Bool(TRUE)>>,
                 <<"base_arrow_scale", Num(Dec(5, 10))>> >>),
         List(<<PyInt(2), PyInt(8)>>) >>,
      << Dict(<< <<"presets", Ref(Settings + 1)>>, <<"theme", Ref(Settings + 4)>>,
                 <<"canvas", Ref(Settings + 5)>> >>),
         Dict(<< <<"balanced", Ref(Settings + 2)>> >>),
         Dict(<< <<"theme", Ref(Settings + 3)>> >>),
         Dict(<< <<"bgcolor", Str("#202020")>> >>),
         Dict(<< <<"bgcolor", Str("#000000")>>, <<"font_color", Str("#ffffff")>> >>),
         Dict(<< <<"height", Str("600px")>> >>) >> }

GlobalSettings ==
    MultiplierSettings \cup {DefaultSettings} \cup SectionSettings \cup OverrideSettings

PresetNames == {"intensity", "heatmap", "micro", "balanced", "unknown", "Intensity", ""}

InitConfig ==
    /\ StylingIdle
    /\ FileIdle
    /\ NetIdle
    /\ DataIdle
    /\ LET registry == RegistryHeap
       IN  \E g \in GlobalSettings : heap = registry \o g
    /\ loader = Settings
    /\ preset_config = NULL
    /\ config = NULL
    /\ raised = "none"
    /\ calls = 0

\* preset_config = get_preset(name)
GetPreset ==
    \E name \in PresetNames :
        LET r == get_preset(heap, name)
        IN  /\ calls < MaxCalls
            /\ heap' = r.h
            /\ preset_config' = IF r.error = "none" THEN r.ret ELSE preset_config
            /\ raised' = IF r.error = "none" THEN "none"
                          ELSE r.error \o ": " \o r.message
            /\ calls' = calls + 1
            /\ UNCHANGED <<loader, config, sty, df, top_n, viz_data, risk_report,
                   hostname_resolver, graph,
                   config_file, net>>

\* config = global_config.apply_to_preset(preset_config)
ApplyToPreset ==
    LET r == apply_to_preset(heap, loader, preset_config)
    IN  /\ calls < MaxCalls
        /\ loader # NULL
        /\ preset_config # NULL
        /\ heap' = r.h
        /\ config' = IF r.error = "none" THEN r.ret ELSE config
        /\ raised' = r.error
        /\ calls' = calls + 1
        /\ UNCHANGED <<loader, preset_config, sty, df, top_n, viz_data, risk_report,
                   hostname_resolver, graph,
                   config_file, net>>

NextConfig == GetPreset \/ ApplyToPreset

SpecConfig == InitConfig /\ [][NextConfig]_vars

\* two objects with the same content (a dict's insertion order aside)
SameObject(x, y) == IF IsDict(x) /\ IsDict(y) THEN x.at = y.at ELSE x = y

\* C1: after any sequence of get_preset / apply_to_preset calls every object
\* of the PRESETS registry, its nested theme and physics sections and range
\* lists included, is what it was when the module was imported.
C1_RegistryUnchanged ==
    \A a \in 1..Len(RegistryHeap) : SameObject(heap[a], RegistryHeap[a])

\* the global settings hold nothing but multipliers
OnlyMultipliers ==
    DOMAIN heap[loader].at \subseteq {"node_size_multiplier", "edge_width_multiplier"}

node_size_multiplier == DictGet(heap[loader], "node_size_multiplier", PyInt(1)).num
edge_width_multiplier == DictGet(heap[loader], "edge_width_multiplier", PyInt(1)).num

\* the registry entries the resolved configuration was made from
SourcePresets ==
    {e \in 2..5 : RegistryHeap[e].at["name"] = heap[config].at["name"]}

\* the list config[key] of the resolved configuration, as a sequence of numbers
Range(key) ==
    LET items == heap[heap[config].at[key].ref].items
    IN  [i \in 1..Len(items) |-> items[i].num]

\* the list PRESETS[..][key] of registry entry e at import
PresetRange(e, key) ==
    LET items == RegistryHeap[RegistryHeap[e].at[key].ref].items
    IN  [i \in 1..Len(items) |-> items[i].num]

\* C5: with global settings holding only multipliers, apply_to_preset
\* replaces every bound b of node_size_range and target_size_range by
\* max(1, b * node_size_multiplier) and every bound w of edge_width_range by
\* w * edge_width_multiplier, unclamped; 2.0 on [3, 15] gives [6, 30] and
\* 0.1 on [3, 15] gives [1, 1.5].
C5_MultipliersApplied ==
    (config # NULL /\ OnlyMultipliers) =>
        \A e \in SourcePresets :
            /\ \A key \in {"node_size_range", "target_size_range"} :
                  Has(RegistryHeap[e], key) =>
                      /\ Has(heap[config], key)
                      /\ Len(Range(key)) = Len(PresetRange(e, key))
                      /\ \A i \in 1..Len(Range(key)) :
                            LET p == FMul(PresetRange(e, key)[i], node_size_multiplier)
                            IN  Range(key)[i] = IF FGt(p, FromInt(1)) THEN p ELSE FromInt(1)
            /\ Len(Range("edge_width_range")) = Len(PresetRange(e, "edge_width_range"))
            /\ \A i \in 1..Len(Range("edge_width_range")) :
                  Range("edge_width_range")[i]
                      = FMul(PresetRange(e, "edge_width_range")[i], edge_width_multiplier)
            /\ (/\ PresetRange(e, "node_size_range") = <<FromInt(3), FromInt(15)>>
                /\ node_size_multiplier = FromInt(2))
               => Range("node_size_range") = <<FromInt(6), FromInt(30)>>
            /\ (/\ PresetRange(e, "node_size_range") = <<FromInt(3), FromInt(15)>>
                /\ node_size_multiplier = Dec(1, 10))
               => Range("node_size_range") = <<FromInt(1), Dec(3, 2)>>

\* C5 witness: multipliers 0.1 applied to the intensity preset: the node
\* sizes are [1, 1.5] (the lower bound clamped) and the edge widths fall
\* below 1.
C5_Witness ==
    /\ config # NULL
    /\ OnlyMultipliers
    /\ node_size_multiplier = Dec(1, 10)
    /\ heap[config].at["name"] = Str("Intensity Map")
    /\ Range("node_size_range") = <<FromInt(1), Dec(3, 2)>>
    /\ FLt(Range("edge_width_range")[1], FromInt(1))

\* C6: with global settings holding only multipliers, whatever their values,
\* after apply_to_preset each of node_size_range, target_size_range and
\* edge_width_range is [min, max] with min =< max, and every node and target
\* size bound is at least 1.
C6_RangesOrdered ==
    (config # NULL /\ OnlyMultipliers) =>
        /\ \A key \in {"node_size_range", "target_size_range", "edge_width_range"} :
              Has(heap[config], key) => FLe(Range(key)[1], Range(key)[2])
        /\ \A key \in {"node_size_range", "target_size_range"} :
              Has(heap[config], key) =>
                  \A i \in 1..Len(Range(key)) : FLe(FromInt(1), Range(key)[i])

(***************************************************************************)
(* Log data.  A pandas DataFrame is the sequence of its rows, a row the    *)
(* function from its column names to its values; Hits are hit counts       *)
(* (integers).  IPs and Classifications list the values in their sort      *)
(* order, the order groupby and mode arrange their results in.             *)
(***************************************************************************)
IPs == <<"A", "B", "C">>
Classifications == <<"Misc", "Scan">>

DataFrame(rows) == [rows |-> rows]
IsNone(v) == "none" \in DOMAIN v

LogRow(src, dst, hits, country, cls) ==
    ("Source IP" :> src) @@ ("Destination IP" :> dst) @@ ("Hits" :> hits)
    @@ ("Source Country" :> country) @@ ("Classification" :> cls)

\* the products of the sort order with itself: every (source, destination) key, sorted
KeyPairs ==
    [i \in 1..(Len(IPs) * Len(IPs)) |->
        <<IPs[((i - 1) \div Len(IPs)) + 1], IPs[((i - 1) % Len(IPs)) + 1]>>]

\* the key of a row under groupby(by)
KeyOf(row, by) == [i \in 1..Len(by) |-> row[by[i]]]

\* groupby(by): the keys that occur, sorted, and the rows of one key in frame order
GroupKeys(rows, by) ==
    LET all == IF Len(by) = 1 THEN [i \in 1..Len(IPs) |-> <<IPs[i]>>] ELSE KeyPairs
    IN  SelectSeq(all, LAMBDA k : \E i \in DOMAIN rows : KeyOf(rows[i], by) = k)

Group(rows, by, k) == SelectSeq(rows, LAMBDA r : KeyOf(r, by) = k)

\* 'Hits': 'first', the aggregate that keeps a group's first hit count
AggFirstHits(rows) == rows[1]["Hits"]

\* 'Hits': 'sum'
RECURSIVE AggSum(_)
AggSum(rows) ==
    IF rows = <<>> THEN 0 ELSE AggSum(SubSeq(rows, 1, Len(rows) - 1)) + rows[Len(rows)]["Hits"]

\* 'first'
AggFirst(rows, col) == rows[1][col]

\* the number of rows of a group
AggCount(rows, col) == Len(rows)

\* 'nunique'
AggNunique(rows, col) == Cardinality({rows[i][col] : i \in DOMAIN rows})

\* x.mode()[0]: the most frequent value, the first in sort order among equals
AggMode(rows, col) ==
    LET count(v) == Cardinality({i \in DOMAIN rows : rows[i][col] = v})
        modes == SelectSeq(Classifications,
                           LAMBDA v : \A w \in {Classifications[i] : i \in DOMAIN Classifications} :
                                          count(v) >= count(w))
    IN  modes[1]

\* sort_values(col, ascending=False) keeping equal rows in frame order
SortDescending(rows, col) ==
    LET pos(i) == 1 + Cardinality({j \in DOMAIN rows :
                       \/ rows[j][col] > rows[i][col]
                       \/ rows[j][col] = rows[i][col] /\ j < i})
    IN  [p \in 1..Len(rows) |-> rows[CHOOSE i \in DOMAIN rows : pos(i) = p]]

\* DataFrame.nlargest(n, col) with keep='first'
nlargest(rows, n, col) == SubSeq(SortDescending(rows, col), 1, Min2(n, Len(rows)))

\* the truth value of a top_n: None and 0 are false
PyTruth(v) == ~IsNone(v) /\ v.num.sg # 0

\* FirewallDataProcessor.aggregate_for_visualization(top_n)
aggregate_for_visualization(frame, n) ==
    LET by == <<"Source IP", "Destination IP">>
        keys == GroupKeys(frame.rows, by)
        aggregated ==
            [i \in 1..Len(keys) |->
                LET g == Group(frame.rows, by, keys[i])
                IN  LogRow(keys[i][1], keys[i][2], AggSum(g),
                           AggFirst(g, "Source Country"), AggFirst(g, "Classification"))]
    IN  IF PyTruth(n) THEN DataFrame(nlargest(aggregated, FTrunc(n.num), "Hits"))
        ELSE DataFrame(aggregated)

\* generate_risk_report up to the Risk Score column: one row per Source IP
RiskTable(frame) ==
    LET by == <<"Source IP">>
        keys == GroupKeys(frame.rows, by)
    IN  [i \in 1..Len(keys) |->
            LET g == Group(frame.rows, by, keys[i])
                hits == AggSum(g)
                targets == AggNunique(g, "Destination IP")
            IN  ("Source IP" :> keys[i][1]) @@ ("Hits" :> hits)
                @@ ("Destination IP" :> targets)
                @@ ("Source Country" :> AggFirst(g, "Source Country"))
                @@ ("Classification" :> AggMode(g, "Classification"))
                @@ ("Risk Score" :> hits + (targets * 10))]

\* the permutations of 1..n
Orders(n) == {f \in [1..n -> 1..n] : \A i, j \in 1..n : f[i] = f[j] => i = j}

\* sort_values(by=col, ascending=False): the default sort promises no order
\* among equal values, so every non-increasing arrangement is a result
SortedDescending(rows, col) ==
    {[i \in 1..Len(rows) |-> rows[f[i]]] : f \in
        {f \in Orders(Len(rows)) :
            \A i \in 1..(Len(rows) - 1) : rows[f[i]][col] >= rows[f[i + 1]][col]}}

\* RiskReporter.generate_risk_report: the reports it can return
generate_risk_report(frame) ==
    {DataFrame(sorted) : sorted \in SortedDescending(RiskTable(frame), "Risk Score")}

(***************************************************************************)
(* Aggregation and risk scoring of a loaded log: main() generates the risk *)
(* report from the cleaned rows and aggregates them for a visualization.   *)
(***************************************************************************)
MaxRows == 3

\* the rows (A->B,10), (A->C,5), (B->C,2)
ExampleRows ==
    <<LogRow("A", "B", 10, "CZ", "Scan"), LogRow("A", "C", 5, "CZ", "Misc"),
      LogRow("B", "C", 2, "US", "Scan")>>

LogRows ==
    {ExampleRows[i] : i \in DOMAIN ExampleRows}
    \cup {LogRow("A", "B", 5, "US", "Misc"), LogRow("B", "C", 10, "US", "Misc"),
          LogRow("B", "B", 2, "CZ", "Scan"), LogRow("A", "C", 2, "US", "Scan"),
          LogRow("C", "A", 5, "CZ", "Misc")}

Frames == UNION {[1..n -> LogRows] : n \in 1..MaxRows}

TopNs == {PyNone} \cup {PyInt(n) : n \in 0..(MaxRows + 1)}

InitData ==
    /\ ConfigIdle
    /\ FileIdle
    /\ NetIdle
    /\ StylingIdle
    /\ \E rows \in Frames : df = DataFrame(rows)
    /\ top_n = PyNone
    /\ viz_data = PyNone
    /\ risk_report = PyNone
    /\ hostname_resolver = PyNone
    /\ graph = PyNone

\* risk_report = reporter.generate_risk_report(...)
GenerateRiskReport ==
    /\ IsNone(risk_report)
    /\ IsNone(viz_data)
    /\ risk_report' \in generate_risk_report(df)
    /\ UNCHANGED <<heap, loader, preset_config, config, raised, calls, sty, df,
                   top_n, viz_data, hostname_resolver, graph,
                   config_file, net>>

\* viz_data = processor.aggregate_for_visualization(top_n=n)
Aggregate ==
    /\ IsNone(viz_data)
    /\ \E n \in TopNs :
          /\ top_n' = n
          /\ viz_data' = aggregate_for_visualization(df, n)
    /\ UNCHANGED <<heap, loader, preset_config, config, raised, calls, sty, df,
                   risk_report, hostname_resolver, graph,
                   config_file, net>>

NextData == GenerateRiskReport \/ Aggregate

SpecData == InitData /\ [][NextData]_vars

\* the (source, destination) pairs of a frame, and a frame's pairs with their Hits
PairsOf(rows) == {<<rows[i]["Source IP"], rows[i]["Destination IP"]>> : i \in DOMAIN rows}
PairHits(rows) ==
    {<<rows[i]["Source IP"], rows[i]["Destination IP"], rows[i]["Hits"]>> : i \in DOMAIN rows}
EachPairOnce(rows) ==
    \A i, j \in DOMAIN rows :
        (rows[i]["Source IP"] = rows[j]["Source IP"]
         /\ rows[i]["Destination IP"] = rows[j]["Destination IP"]) => i = j

\* the sum of the Hits of the rows whose positions are in S
RECURSIVE HitsOver(_, _)
HitsOver(rows, S) ==
    IF S = {} THEN 0
    ELSE LET i == CHOOSE i \in S : TRUE IN rows[i]["Hits"] + HitsOver(rows, S \ {i})

PairTotal(rows, p) ==
    HitsOver(rows, {i \in DOMAIN rows :
                       <<rows[i]["Source IP"], rows[i]["Destination IP"]>> = p})
SourceTotal(rows, src) == HitsOver(rows, {i \in DOMAIN rows : rows[i]["Source IP"] = src})
TargetsOf(rows, src) ==
    {rows[i]["Destination IP"] : i \in {i \in DOMAIN rows : rows[i]["Source IP"] = src}}

\* C7: without top_n, the aggregation of every reordering of the log rows has
\* the pairs of the aggregation that was returned, each pair once, with the
\* same summed Hits, and these are the pairs of the log with their totals.
C7_OrderIndependent ==
    (~IsNone(viz_data) /\ IsNone(top_n)) =>
        /\ EachPairOnce(viz_data.rows)
        /\ PairsOf(viz_data.rows) = PairsOf(df.rows)
        /\ \A f \in Orders(Len(df.rows)) :
              LET shuffled == DataFrame([i \in 1..Len(df.rows) |-> df.rows[f[i]]])
                  out == aggregate_for_visualization(shuffled, PyNone)
              IN  /\ EachPairOnce(out.rows)
                  /\ PairHits(out.rows) = PairHits(viz_data.rows)

\* C7 witness: an aggregation without top_n of a log in which one pair has
\* two rows with different hit counts, in a frame of several pairs
C7_Witness ==
    /\ ~IsNone(viz_data)
    /\ IsNone(top_n)
    /\ Cardinality(PairsOf(df.rows)) >= 2
    /\ \E i, j \in DOMAIN df.rows :
          /\ i < j
          /\ <<df.rows[i]["Source IP"], df.rows[i]["Destination IP"]>>
               = <<df.rows[j]["Source IP"], df.rows[j]["Destination IP"]>>
          /\ df.rows[i]["Hits"] # df.rows[j]["Hits"]

\* C8: for every given non-negative top_n the aggregation returns exactly
\* min(top_n, number of distinct pairs) rows, and every returned row has at
\* least the summed Hits of every pair that was discarded.
C8_TopNExact ==
    (~IsNone(viz_data) /\ ~IsNone(top_n)) =>
        /\ Len(viz_data.rows)
             = Min2(FTrunc(top_n.num), Cardinality(PairsOf(df.rows)))
        /\ \A i \in DOMAIN viz_data.rows :
              \A p \in PairsOf(df.rows) \ PairsOf(viz_data.rows) :
                  viz_data.rows[i]["Hits"] >= PairTotal(df.rows, p)

\* C9: the risk report has one record per Source IP of the log, each with
\* Risk Score = the source's total Hits + 10 x its number of distinct
\* Destination IPs, in non-increasing order of Risk Score; the example rows
\* score 35 for A and 12 for B.
C9_RiskScores ==
    ~IsNone(risk_report) =>
        LET report == risk_report.rows
            sources == {df.rows[i]["Source IP"] : i \in DOMAIN df.rows}
        IN  /\ {report[i]["Source IP"] : i \in DOMAIN report} = sources
            /\ Len(report) = Cardinality(sources)
            /\ \A i \in DOMAIN report :
                  report[i]["Risk Score"]
                    = SourceTotal(df.rows, report[i]["Source IP"])
                      + 10 * Cardinality(TargetsOf(df.rows, report[i]["Source IP"]))
            /\ \A i \in 1..(Len(report) - 1) :
                  report[i]["Risk Score"] >= report[i + 1]["Risk Score"]
            /\ df.rows = ExampleRows =>
                  /\ \E i \in DOMAIN report :
                        report[i]["Source IP"] = "A" /\ report[i]["Risk Score"] = 35
                  /\ \E i \in DOMAIN report :
                        report[i]["Source IP"] = "B" /\ report[i]["Risk Score"] = 12

\* C9 witness: the report of the example rows, A before B
C9_Witness ==
    /\ ~IsNone(risk_report)
    /\ df.rows = ExampleRows
    /\ Len(risk_report.rows) = 2
    /\ risk_report.rows[1]["Source IP"] = "A"
    /\ risk_report.rows[1]["Risk Score"] = 35

(***************************************************************************)
(* The graph builder.  self is the builder: the heap its configuration     *)
(* lives in, the configuration's address, the hostname resolver and the    *)
(* aggregated frame.  The networkx DiGraph G lists its nodes and edges in  *)
(* insertion order with their attribute dicts; error is the exception that *)
(* ended the build.  A numpy division by zero yields inf or nan where a    *)
(* Python one raises.                                                      *)
(***************************************************************************)
NpInf(sg) == [inf |-> sg]
NpNan == [nan |-> 0]

\* the truth value of a Python value
PyBool(h, v) ==
    IF "bool" \in DOMAIN v THEN v.bool
    ELSE IF "num" \in DOMAIN v THEN v.num.sg # 0
    ELSE IF "str" \in DOMAIN v THEN v.str # ""
    ELSE IF "tuple" \in DOMAIN v THEN v.tuple # <<>>
    ELSE IF "ref" \in DOMAIN v
    THEN (IF IsDict(h[v.ref]) THEN h[v.ref].keys # <<>> ELSE h[v.ref].items # <<>>)
    ELSE FALSE

\* str(n)
RECURSIVE PyStrNat(_)
PyStrNat(n) ==
    IF n < 10 THEN SubSeq("0123456789", n + 1, n + 1)
    ELSE PyStrNat(n \div 10) \o SubSeq("0123456789", (n % 10) + 1, (n % 10) + 1)

PyStr(n) == IF n < 0 THEN "-" \o PyStrNat(0 - n) ELSE PyStrNat(n)

\* nx.DiGraph()
DiGraph == [nodes |-> <<>>, node |-> <<>>, edges |-> <<>>, adj |-> <<>>, error |-> "none"]

Failed(G, exc) == [G EXCEPT !.error = exc]

\* add_node that lists the node again when it exists
add_node_again(G, n, attr) ==
    [G EXCEPT !.nodes = Append(@, n), !.node = (n :> attr) @@ @]

\* G.add_node(n, **attr): a node that exists keeps its place, its attributes are updated
add_node(G, n, attr) ==
    IF n \in DOMAIN G.node THEN [G EXCEPT !.node[n] = attr @@ @]
    ELSE [G EXCEPT !.nodes = Append(@, n), !.node = (n :> attr) @@ @]

\* G.add_edge(u, v, **attr)
add_edge(G, u, v, attr) ==
    LET G1 == IF u \in DOMAIN G.node THEN G ELSE add_node(G, u, <<>>)
        G2 == IF v \in DOMAIN G1.node THEN G1 ELSE add_node(G1, v, <<>>)
    IN  IF <<u, v>> \in DOMAIN G2.adj THEN [G2 EXCEPT !.adj[<<u, v>>] = attr @@ @]
        ELSE [G2 EXCEPT !.edges = Append(@, <<u, v>>), !.adj = (<<u, v>> :> attr) @@ @]

\* viz_data.groupby(col)['Hits'].sum()
GroupSum(rows, col) ==
    [k \in {rows[i][col] : i \in DOMAIN rows} |-> AggSum(Group(rows, <<col>>, <<k>>))]

\* a series that keeps s's value where both series have the key
SeriesCombineFirst(s, t) ==
    [k \in DOMAIN s \cup DOMAIN t |-> IF k \in DOMAIN s THEN s[k] ELSE t[k]]

\* s.add(t, fill_value=0)
SeriesAdd(s, t) ==
    [k \in DOMAIN s \cup DOMAIN t |->
        (IF k \in DOMAIN s THEN s[k] ELSE 0) + (IF k \in DOMAIN t THEN t[k] ELSE 0)]

\* Series.max() and Series.min(); of an empty series the value is nan and unused
SeriesMax(s) ==
    IF DOMAIN s = {} THEN 0
    ELSE CHOOSE v \in {s[k] : k \in DOMAIN s} : \A k \in DOMAIN s : s[k] <= v
SeriesMin(s) ==
    IF DOMAIN s = {} THEN 0
    ELSE CHOOSE v \in {s[k] : k \in DOMAIN s} : \A k \in DOMAIN s : s[k] >= v

\* self.config.get(key, default)
ConfigGet(self, key, default) == DictGet(self.h[self.config], key, default)

\* self.config.get(key, [lo, hi]) as the pair of its first two items
RangeGet(self, key, lo, hi) ==
    LET v == ConfigGet(self, key, PyNone)
    IN  IF IsRef(v) THEN <<self.h[v.ref].items[1].num, self.h[v.ref].items[2].num>>
        ELSE <<FromInt(lo), FromInt(hi)>>

\* HostnameResolver.get_hostname(ip)
get_hostname(resolver, ip) ==
    IF ip \in DOMAIN resolver.cache THEN resolver.cache[ip].hostname ELSE ip

_get_hostname(self, ip) ==
    IF ~IsNone(self.hostname_resolver) THEN get_hostname(self.hostname_resolver, ip)
    ELSE ip

\* _format_node_label without the show_in_labels test of lines 300-301
_format_node_label_ungated(self, ip, hostname) ==
    LET hostname_settings == ConfigGet(self, "hostname_labels", PyNone)
        get(key) == /\ IsRef(hostname_settings)
                    /\ PyBool(self.h, DictGet(self.h[hostname_settings.ref], key, Bool(FALSE)))
    IN  IF IsNone(self.hostname_resolver) \/ hostname = ip THEN ip
        ELSE IF get("prefer_hostname") THEN hostname
        ELSE IF get("show_both") THEN ip \o "\n" \o hostname
        ELSE ip

_format_node_label(self, ip, hostname) ==
    LET hostname_settings == ConfigGet(self, "hostname_labels", PyNone)
        get(key) == /\ IsRef(hostname_settings)
                    /\ PyBool(self.h, DictGet(self.h[hostname_settings.ref], key, Bool(FALSE)))
    IN  IF IsNone(self.hostname_resolver) \/ hostname = ip THEN ip
        ELSE IF ~get("show_in_labels") THEN ip
        ELSE IF get("prefer_hostname") THEN hostname
        ELSE IF get("show_both") THEN ip \o "\n" \o hostname
        ELSE ip

\* the tooltip of a node: its role and IP, its hostname when it has one, the rest
NodeTitle(role, ip, hostname, rest) ==
    IF hostname # ip THEN role \o ": " \o ip \o "\nHostname: " \o hostname \o rest
    ELSE role \o ": " \o ip \o rest

\* lines 88-121 once the two sizes and hostnames are known
CombinedNodes(self, G, src, dst, row, src_size, dst_size, src_hostname, dst_hostname) ==
    IF src_size.error # "none" THEN Failed(G, src_size.error)
    ELSE IF dst_size.error # "none" THEN Failed(G, dst_size.error)
    ELSE add_node(
             add_node(G, src,
                 ("label" :> Str(_format_node_label(self, src, src_hostname)))
                 @@ ("size" :> Num(src_size.value))
                 @@ ("color" :> Str("#bdc3c7"))
                 @@ ("title" :> Str(NodeTitle("ATTACKER", src, src_hostname,
                                              "\nCountry: " \o row["Source Country"])))),
             dst,
             ("label" :> Str(_format_node_label(self, dst, dst_hostname)))
             @@ ("size" :> Num(dst_size.value))
             @@ ("color" :> Str("#3498db"))
             @@ ("title" :> Str(NodeTitle("TARGET", dst, dst_hostname, ""))))

\* scale_log_range of a pooled volume into the range
ScalePooled(vol, node_stats, range) ==
    scale_log_range(vol, SeriesMin(node_stats), SeriesMax(node_stats), range[1], range[2])

_add_node_combined(self, G, src, dst, row, node_stats) ==
    CombinedNodes(self, G, src, dst, row,
                  ScalePooled(node_stats[src], node_stats,
                              RangeGet(self, "node_size_range", 3, 15)),
                  ScalePooled(node_stats[dst], node_stats,
                              RangeGet(self, "node_size_range", 3, 15)),
                  _get_hostname(self, src), _get_hostname(self, dst))

\* scale_linear whatever the node_scale_method
ScaleNodeLinear(self, vol, max_vol, range) ==
    scale_linear(vol, 0, max_vol, range[1], range[2])

\* scale_sqrt or scale_linear by node_scale_method, from 0 to max_vol
ScaleNode(self, vol, max_vol, range) ==
    IF ConfigGet(self, "node_scale_method", PyNone) = Str("sqrt")
    THEN scale_sqrt(vol, 0, max_vol, range[1], range[2])
    ELSE scale_linear(vol, 0, max_vol, range[1], range[2])

\* self.config.get('color_thresholds', default) as the sequence of its items
ThresholdsGet(self, default) ==
    IF "tuple" \in DOMAIN ConfigGet(self, "color_thresholds", PyNone)
    THEN ConfigGet(self, "color_thresholds", PyNone).tuple
    ELSE IF IsRef(ConfigGet(self, "color_thresholds", PyNone))
    THEN [i \in DOMAIN self.h[ConfigGet(self, "color_thresholds", PyNone).ref].items |->
             self.h[ConfigGet(self, "color_thresholds", PyNone).ref].items[i].num]
    ELSE default

\* lines 135-140
AttackerColor(self, src_vol, max_attacker_vol) ==
    IF ConfigGet(self, "color_mode", Str("gradient")) = Str("heatmap")
    THEN get_heatmap_color(src_vol, max_attacker_vol,
                           ThresholdsGet(self, <<Dec(15, 100), Dec(4, 10), Dec(7, 10)>>))
    ELSE Return("#bdc3c7", 0)

\* lines 146-152
AttackerLabel(self, src, src_vol, max_attacker_vol, src_hostname) ==
    IF PyBool(self.h, ConfigGet(self, "label_threshold", PyNone))
    THEN IF FGt(FromInt(src_vol),
                FMul(FromInt(max_attacker_vol), ConfigGet(self, "label_threshold", PyNone).num))
         THEN _format_node_label(self, src, src_hostname)
         ELSE ""
    ELSE _format_node_label(self, src, src_hostname)

\* lines 154-168 once the size, colour and hostname are known
AttackerNode(self, G, src, row, src_vol, max_attacker_vol, src_size, src_color, src_hostname) ==
    IF src_size.error # "none" THEN Failed(G, src_size.error)
    ELSE IF src_color.error # "none" THEN Failed(G, src_color.error)
    ELSE add_node(G, src,
             ("label" :> Str(AttackerLabel(self, src, src_vol, max_attacker_vol, src_hostname)))
             @@ ("size" :> Num(src_size.value))
             @@ ("color" :> Str(src_color.value)) @@ ("borderWidth" :> PyInt(2))
             @@ ("shape" :> Str("dot"))
             @@ ("title" :> Str(NodeTitle("ATTACKER", src, src_hostname,
                                          "\nCountry: " \o row["Source Country"]
                                          \o "\nTotal Hits: " \o PyStr(src_vol)))))

_add_attacker_node_separate(self, G, src, row, attacker_stats, max_attacker_vol) ==
    AttackerNode(self, G, src, row, attacker_stats[src], max_attacker_vol,
                 ScaleNode(self, attacker_stats[src], max_attacker_vol,
                           RangeGet(self, "node_size_range", 6, 28)),
                 AttackerColor(self, attacker_stats[src], max_attacker_vol),
                 _get_hostname(self, src))

\* lines 180-196 once the size and hostname are known
TargetNode(self, G, dst, dst_vol, dst_size, dst_hostname) ==
    IF G.error # "none" THEN G
    ELSE IF dst_size.error # "none" THEN Failed(G, dst_size.error)
    ELSE add_node(G, dst,
             ("label" :> Str(_format_node_label(self, dst, dst_hostname)))
             @@ ("size" :> Num(dst_size.value))
             @@ ("color" :> Str("#2c3e50")) @@ ("borderWidth" :> PyInt(3))
             @@ ("borderColor" :> Str("#3498db"))
             @@ ("title" :> Str(NodeTitle("TARGET", dst, dst_hostname,
                                          "\nIncoming Hits: " \o PyStr(dst_vol)))))

_add_target_node_separate(self, G, dst, target_stats, max_target_vol) ==
    TargetNode(self, G, dst, target_stats[dst],
               ScaleNode(self, target_stats[dst], max_target_vol,
                         RangeGet(self, "target_size_range", 8, 30)),
               _get_hostname(self, dst))

\* lines 207-214 once the three square roots are known: the width, and
\* whether it is a numpy float
SqrtWidth(sqrt_hits, sqrt_min, sqrt_max, edge_width_range) ==
    IF FGt(sqrt_max, sqrt_min)
    THEN [value |-> Interpolate(Return(FDiv(FSub(sqrt_hits, sqrt_min),
                                            FSub(sqrt_max, sqrt_min)), 1),
                                edge_width_range[1], edge_width_range[2]).value,
          numpy |-> TRUE]
    ELSE [value |-> edge_width_range[1], numpy |-> FALSE]

\* lines 203-219
EdgeWidth(self, hits, max_hits, min_hits, edge_width_range) ==
    IF ConfigGet(self, "edge_scale_method", PyNone) = Str("sqrt_simple")
    THEN SqrtWidth(FSqrt(FromInt(hits)), FSqrt(FromInt(min_hits)), FSqrt(FromInt(max_hits)),
                   edge_width_range)
    ELSE [value |-> scale_linear(hits, min_hits, max_hits,
                                 edge_width_range[1], edge_width_range[2]).value,
          numpy |-> max_hits # min_hits]

\* lines 222-233
EdgeColor(self, hits, max_hits, min_hits) ==
    IF PyBool(self.h, ConfigGet(self, "use_smooth_gradient", Bool(TRUE)))
    THEN get_smooth_gradient(hits, min_hits, max_hits)
    ELSE IF ConfigGet(self, "color_mode", Str("gradient")) = Str("heatmap")
    THEN get_heatmap_color(hits, max_hits,
                           ThresholdsGet(self, <<Dec(15, 100), Dec(4, 10), Dec(7, 10)>>))
    ELSE get_color_gradient(hits, max_hits, ThresholdsGet(self, <<Dec(2, 10), Dec(6, 10)>>))

\* base_arrow_scale * (edge_width / edge_width_range[0])
ArrowScale(base_arrow_scale, edge_width, w0) ==
    IF w0.sg # 0 THEN Return(Num(FMul(base_arrow_scale, FDiv(edge_width.value, w0))), 1)
    ELSE IF ~edge_width.numpy THEN Raise("ZeroDivisionError", 1)
    ELSE IF edge_width.value.sg = 0 \/ base_arrow_scale.sg = 0 THEN Return(NpNan, 1)
    ELSE Return(NpInf(edge_width.value.sg * base_arrow_scale.sg), 1)

\* lines 236-242: the arrow_scale_factor, None when arrows are not scaled
ArrowScaleFactor(self, edge_width, edge_width_range) ==
    IF ~PyBool(self.h, ConfigGet(self, "scale_arrows_with_edges", Bool(FALSE)))
    THEN Return(PyNone, 0)
    ELSE ArrowScale(ConfigGet(self, "base_arrow_scale", Num(Dec(5, 10))).num,
                    edge_width, edge_width_range[1])

\* the width with the arrow_scale_factor it gives
Arrowed(self, edge_width, edge_width_range) ==
    [width |-> edge_width.value,
     arrow_scale_factor |-> ArrowScaleFactor(self, edge_width, edge_width_range)]

\* lines 247-266 once the colour, the width and the arrow_scale_factor are known
EdgeAttrs(self, G, src, dst, hits, row, edge_color, w) ==
    IF G.error # "none" THEN G
    ELSE IF edge_color.error # "none" THEN Failed(G, edge_color.error)
    ELSE IF w.arrow_scale_factor.error # "none" THEN Failed(G, w.arrow_scale_factor.error)
    ELSE add_edge(G, src, dst,
             ("width" :> Num(w.width)) @@ ("color" :> Str(edge_color.value))
             @@ ("title" :> Str("Hits: " \o PyStr(hits) \o "\nType: " \o row["Classification"]))
             @@ (IF IsNone(w.arrow_scale_factor.value) THEN <<>>
                 ELSE ("arrows" :> ("to" :> (("enabled" :> Bool(TRUE))
                          @@ ("scaleFactor" :> w.arrow_scale_factor.value)))))
             @@ (IF PyBool(self.h, ConfigGet(self, "edge_opacity", PyNone))
                 THEN ("opacity" :> ConfigGet(self, "edge_opacity", PyNone))
                 ELSE <<>>))

_add_edge(self, G, src, dst, hits, row, max_hits, min_hits) ==
    EdgeAttrs(self, G, src, dst, hits, row,
              EdgeColor(self, hits, max_hits, min_hits),
              Arrowed(self, EdgeWidth(self, hits, max_hits, min_hits,
                                      RangeGet(self, "edge_width_range", 1, 6)),
                      RangeGet(self, "edge_width_range", 1, 6)))

\* lines 65-70: the nodes of a row
AddNodes(self, G, stats, row) ==
    IF ConfigGet(self, "node_sizing", PyNone) = Str("separate")
    THEN _add_target_node_separate(self,
             _add_attacker_node_separate(self, G, row["Source IP"], row,
                                         stats.attacker_stats, stats.max_attacker_vol),
             row["Destination IP"], stats.target_stats, stats.max_target_vol)
    ELSE _add_node_combined(self, G, row["Source IP"], row["Destination IP"], row,
                            stats.node_stats)

\* lines 60-73 for the rows from position i on
RECURSIVE BuildRows(_, _, _, _)
BuildRows(self, G, stats, i) ==
    IF G.error # "none" \/ i > Len(self.viz_data.rows) THEN G
    ELSE BuildRows(self,
                   _add_edge(self, AddNodes(self, G, stats, self.viz_data.rows[i]),
                             self.viz_data.rows[i]["Source IP"],
                             self.viz_data.rows[i]["Destination IP"],
                             self.viz_data.rows[i]["Hits"], self.viz_data.rows[i],
                             stats.max_hits, stats.min_hits),
                   stats, i + 1)

\* lines 40-57: the statistics of the frame
Stats(hits, attacker_stats, target_stats) ==
    [max_hits |-> SeriesMax(hits), min_hits |-> SeriesMin(hits),
     attacker_stats |-> attacker_stats, target_stats |-> target_stats,
     max_attacker_vol |-> SeriesMax(attacker_stats),
     max_target_vol |-> SeriesMax(target_stats),
     node_stats |-> SeriesAdd(attacker_stats, target_stats)]

\* FirewallGraphBuilder(viz_data, preset_config, hostname_resolver).build()
build(self) ==
    BuildRows(self, DiGraph,
              Stats([i \in DOMAIN self.viz_data.rows |-> self.viz_data.rows[i]["Hits"]],
                    GroupSum(self.viz_data.rows, "Source IP"),
                    GroupSum(self.viz_data.rows, "Destination IP")),
              1)

(***************************************************************************)
(* One pass of main()'s loop over the presets: the configuration of the    *)
(* preset, the aggregation with the configuration's top_n and the build of *)
(* the graph.                                                              *)
(***************************************************************************)
\* settings with override bundles that turn the smooth gradient off
ThresholdSettings ==
    << Dict(<< <<"presets", Ref(Settings + 1)>> >>),
       Dict(<< <<"intensity", Ref(Settings + 2)>>, <<"heatmap", Ref(Settings + 2)>>,
               <<"micro", Ref(Settings + 3)>> >>),
       Dict(<< <<"use_smooth_gradient", Bool(FALSE)>> >>),
       Dict(<< <<"use_smooth_gradient", Bool(FALSE)>>, <<"top_n", PyInt(1)>> >>) >>

\* the scenarios: every log of example rows with the default settings and no
\* resolver; the example log in both orders and a log with a pair in both
\* directions with the other settings, with and without a resolver
MainRows == {ExampleRows[i] : i \in DOMAIN ExampleRows}

\* logs in which nodes of different roles have the same pooled volume
PooledRows ==
    {<<LogRow("A", "B", 3, "CZ", "Scan"), LogRow("A", "C", 3, "CZ", "Misc"),
       LogRow("B", "C", 1, "US", "Scan")>>,
     <<LogRow("A", "B", 5, "CZ", "Scan"), LogRow("C", "A", 5, "US", "Misc")>>}

\* logs with an attacker at or below a tenth of the largest attacker volume:
\* one that is a target as well, one that is only a source
LabelRows ==
    {<<LogRow("B", "C", 50, "US", "Misc"), LogRow("A", "C", 4, "CZ", "Scan"),
       LogRow("C", "A", 1, "DE", "Scan")>>,
     <<LogRow("A", "C", 10, "CZ", "Scan"), LogRow("B", "C", 1, "US", "Misc")>>}

Resolvers ==
    {PyNone,
     [cache |-> ("A" :> [hostname |-> "gw.example.org", failed |-> FALSE])
                @@ ("B" :> [hostname |-> "B", failed |-> TRUE])]}

\* settings with a hostname_labels section: every combination of the flags
LabelSettings ==
    { << Dict(<< <<"hostname_labels", Ref(Settings + 1)>> >>),
         Dict(<< <<"show_in_labels", Bool(f[1])>>, <<"prefer_hostname", Bool(f[2])>>,
                 <<"show_both", Bool(f[3])>> >>) >> : f \in [1..3 -> BOOLEAN] }

\* settings that scale the arrows with the edges, the edge widths multiplied
\* by 2, by 0 and by -1
ArrowSettings ==
    { << Dict(<< <<"edge_width_multiplier", Num(m)>>,
                 <<"edge_settings", Ref(Settings + 1)>> >>),
         Dict(<< <<"scale_arrows_with_edges", Bool(TRUE)>> >>) >> :
      m \in {FromInt(2), FromInt(0), FromInt(-1)} }

\* logs whose hits are all zero, all equal, and the example
FlatRows ==
    {<<LogRow("A", "B", 0, "CZ", "Scan"), LogRow("A", "C", 0, "CZ", "Misc")>>,
     <<LogRow("A", "B", 5, "CZ", "Scan"), LogRow("B", "C", 5, "US", "Misc")>>,
     ExampleRows}

\* multipliers whose products are not exact in binary: 1.7 and 2.3
RoundingSettings ==
    << Dict(<< <<"node_size_multiplier", Num(Dec(17, 10))>>,
               <<"edge_width_multiplier", Num(Dec(23, 10))>> >>) >>

Scenarios ==
    {[rows |-> rows, settings |-> DefaultSettings, resolver |-> PyNone] :
        rows \in PooledRows \cup LabelRows
                  \cup UNION {[1..n -> MainRows] : n \in 1..MaxRows}}
    \cup {[rows |-> rows, settings |-> g, resolver |-> r] :
            rows \in {ExampleRows, <<ExampleRows[3], ExampleRows[2], ExampleRows[1]>>,
                      <<ExampleRows[1], LogRow("B", "A", 5, "US", "Misc")>>},
            g \in {ThresholdSettings} \cup SectionSettings, r \in Resolvers}
    \cup {[rows |-> ExampleRows, settings |-> g, resolver |-> r] :
            g \in LabelSettings, r \in Resolvers}
    \cup {[rows |-> rows, settings |-> g, resolver |-> PyNone] :
            rows \in FlatRows, g \in ArrowSettings \cup {DefaultSettings}}
    \cup {[rows |-> ExampleRows, settings |-> RoundingSettings, resolver |-> PyNone]}

\* args.top_n
ArgsTopN == {PyNone, PyInt(2)}

InitMain ==
    /\ StylingIdle
    /\ FileIdle
    /\ NetIdle
    /\ LET registry == RegistryHeap
       IN  \E s \in Scenarios :
              /\ heap = registry \o s.settings
              /\ df = DataFrame(s.rows)
              /\ hostname_resolver = s.resolver
    /\ loader = Settings
    /\ preset_config = NULL
    /\ config = NULL
    /\ raised = "none"
    /\ calls = 0
    /\ top_n = PyNone
    /\ viz_data = PyNone
    /\ risk_report = PyNone
    /\ graph = PyNone

\* if args.top_n: config['top_n'] = args.top_n
ArgsOverride(r, args_top_n) ==
    IF PyTruth(args_top_n) THEN [r EXCEPT !.h = Store(r.h, r.ret, "top_n", args_top_n)]
    ELSE r

\* config = global_config.apply_to_preset(config) for the config get_preset returned
Configured(r, preset) == [preset_config |-> preset, h |-> r.h, ret |-> r.ret]
Applied(r, self) == Configured(apply_to_preset(r.h, self, r.ret), r.ret)

\* lines 239-246 of main(): [h, preset_config, ret]
configure(h, self, preset_name, args_top_n) ==
    ArgsOverride(Applied(get_preset(h, preset_name), self), args_top_n)

\* config = get_preset(preset_name); config = global_config.apply_to_preset(config);
\* if args.top_n: config['top_n'] = args.top_n
Configure ==
    /\ config = NULL
    /\ \E preset_name \in KnownPresetKeys, args_top_n \in ArgsTopN :
          \E r \in {configure(heap, loader, preset_name, args_top_n)} :
              /\ preset_config' = r.preset_config
              /\ config' = r.ret
              /\ heap' = r.h
    /\ calls' = calls + 2
    /\ UNCHANGED <<loader, raised, sty, df, top_n, viz_data, risk_report,
                   hostname_resolver, graph,
                   config_file, net>>

\* viz_data = processor.aggregate_for_visualization(top_n=config['top_n'])
AggregateForPreset ==
    /\ config # NULL
    /\ IsNone(viz_data)
    /\ top_n' = heap[config].at["top_n"]
    /\ viz_data' = aggregate_for_visualization(df, heap[config].at["top_n"])
    /\ UNCHANGED <<heap, loader, preset_config, config, raised, calls, sty, df,
                   risk_report, hostname_resolver, graph,
                   config_file, net>>

\* graph = FirewallGraphBuilder(viz_data, config, hostname_resolver).build()
Build ==
    /\ ~IsNone(viz_data)
    /\ IsNone(graph)
    /\ graph' = build([h |-> heap, config |-> config, viz_data |-> viz_data,
                       hostname_resolver |-> hostname_resolver])
    /\ UNCHANGED <<heap, loader, preset_config, config, raised, calls, sty, df,
                   top_n, viz_data, risk_report, hostname_resolver,
                   config_file, net>>

NextMain == Configure \/ AggregateForPreset \/ Build

SpecMain == InitMain /\ [][NextMain]_vars

\* C10: the graph build() returns has one node per IP that occurs as source
\* or destination of an aggregated row and no other node, and one
\* source->destination edge per aggregated row and no other edge; the rows
\* (A->B), (A->C), (B->C) give 3 edges and the nodes A, B, C.
C10_GraphShape ==
    (~IsNone(graph) /\ graph.error = "none") =>
        LET rows == viz_data.rows
            ips == {rows[i]["Source IP"] : i \in DOMAIN rows}
                   \cup {rows[i]["Destination IP"] : i \in DOMAIN rows}
        IN  /\ {graph.nodes[i] : i \in DOMAIN graph.nodes} = ips
            /\ Len(graph.nodes) = Cardinality(ips)
            /\ DOMAIN graph.node = ips
            /\ {graph.edges[i] : i \in DOMAIN graph.edges} = PairsOf(rows)
            /\ Len(graph.edges) = Len(rows)
            /\ DOMAIN graph.adj = PairsOf(rows)
            /\ PairsOf(rows) = {<<"A", "B">>, <<"A", "C">>, <<"B", "C">>} =>
                  /\ Len(graph.edges) = 3
                  /\ {graph.nodes[i] : i \in DOMAIN graph.nodes} = {"A", "B", "C"}

\* C10 witness: a graph built from the aggregation of the example rows
C10_Witness ==
    /\ ~IsNone(graph)
    /\ graph.error = "none"
    /\ df.rows = ExampleRows
    /\ PairHits(viz_data.rows) = {<<"A", "B", 10>>, <<"A", "C", 5>>, <<"B", "C", 2>>}
    /\ Len(graph.edges) = 3
    /\ Len(graph.nodes) = 3

\* outbound hits of ip as source plus inbound hits as destination
PooledVolume(rows, ip) ==
    HitsOver(rows, {i \in DOMAIN rows : rows[i]["Source IP"] = ip})
    + HitsOver(rows, {i \in DOMAIN rows : rows[i]["Destination IP"] = ip})

Combined == heap[config].at["node_sizing"] # Str("separate")

SourcesOf(rows) == {rows[i]["Source IP"] : i \in DOMAIN rows}
TargetsIn(rows) == {rows[i]["Destination IP"] : i \in DOMAIN rows}

\* C11: in a graph built with node_sizing 'combined', two nodes with the same
\* pooled volume (outbound plus inbound hits) have the same size, whatever
\* their roles and whichever row wrote them last.
C11_CombinedSizeIgnoresRole ==
    (~IsNone(graph) /\ graph.error = "none" /\ Combined) =>
        \A a, b \in DOMAIN graph.node :
            PooledVolume(viz_data.rows, a) = PooledVolume(viz_data.rows, b)
                => graph.node[a]["size"] = graph.node[b]["size"]

\* C11 witness: a combined graph where a node that is only a destination and
\* a node that is a source have the same pooled volume and the same size,
\* while a third node has another size
C11_Witness ==
    /\ ~IsNone(graph)
    /\ graph.error = "none"
    /\ Combined
    /\ \E a, b, c \in DOMAIN graph.node :
          /\ a \notin SourcesOf(viz_data.rows)
          /\ b \in SourcesOf(viz_data.rows)
          /\ PooledVolume(viz_data.rows, a) = PooledVolume(viz_data.rows, b)
          /\ graph.node[a]["size"] = graph.node[b]["size"]
          /\ graph.node[c]["size"] # graph.node[a]["size"]
    /\ \E a, b \in DOMAIN graph.node :
          /\ a \in SourcesOf(viz_data.rows) \cap TargetsIn(viz_data.rows)
          /\ b \notin SourcesOf(viz_data.rows) \cap TargetsIn(viz_data.rows)
          /\ PooledVolume(viz_data.rows, a) = PooledVolume(viz_data.rows, b)

\* the addresses an object of the heap refers to
RefsOf(obj) ==
    IF IsDict(obj) THEN {obj.at[k].ref : k \in {x \in DOMAIN obj.at : IsRef(obj.at[x])}}
    ELSE IF "items" \in DOMAIN obj
    THEN {obj.items[i].ref : i \in {j \in DOMAIN obj.items : IsRef(obj.items[j])}}
    ELSE {}

\* the mutable objects that can be reached from the addresses S
RECURSIVE Reach(_, _)
Reach(h, S) ==
    IF (UNION {RefsOf(h[a]) : a \in S}) \subseteq S THEN S
    ELSE Reach(h, S \cup UNION {RefsOf(h[a]) : a \in S})

\* C12: the configuration apply_to_preset returned and the global settings
\* share no mutable object, so that a mutation of any section of the one
\* cannot be seen through the other.
C12_NoSharedState ==
    (config # NULL /\ loader # NULL) =>
        Reach(heap, {config}) \cap Reach(heap, {loader}) = {}

\* C13: for every name that is not a key of PRESETS get_preset raises
\* ValueError with a message that lists all the preset names, returns no
\* configuration and leaves the registry as it is; for every key it returns
\* a configuration with that preset's content and raises nothing.
C13_UnknownPresetRaises ==
    /\ \A name \in PresetNames :
          LET r == get_preset(heap, name)
          IN  IF name \in KnownPresetKeys
              THEN /\ r.error = "none"
                   /\ r.ret # NULL
                   /\ r.h[r.ret] = heap[heap[PRESETS].at[name].ref]
              ELSE /\ r.error = "ValueError"
                   /\ r.ret = NULL
                   /\ r.h = heap
                   /\ \A k \in KnownPresetKeys : PyIn(k, r.message)
    /\ raised # "none" =>
          \E name \in PresetNames \ KnownPresetKeys :
              raised = "ValueError: Unknown preset '" \o name
                       \o "'. Available: intensity, heatmap, micro, balanced"

\* C13 witness: get_preset of an unknown name has raised after an earlier
\* call returned a configuration, which is kept
C13_Witness ==
    /\ raised = "ValueError: Unknown preset 'Intensity'. Available: intensity, heatmap, micro, balanced"
    /\ preset_config # NULL
    /\ config # NULL

(***************************************************************************)
(* src/config/config_loader.py: ConfigLoader() and load().  What is found  *)
(* at config.yaml is a record: state "missing", "unreadable" (open raises  *)
(* OSError), "syntax_error" (yaml.safe_load raises YAMLError) or "parsed"  *)
(* with the value doc that yaml.safe_load returned and the objects it      *)
(* built, laid out from address Settings on.                               *)
(***************************************************************************)
ConfigFile(state, doc, objects) == [state |-> state, doc |-> doc, objects |-> objects]

Mapping(objects) == ConfigFile("parsed", Ref(Settings), objects)

ConfigFiles ==
    {ConfigFile("missing", PyNone, <<>>),
     ConfigFile("unreadable", PyNone, <<>>),
     ConfigFile("syntax_error", PyNone, <<>>),
     \* an empty file, the documents [] and 0
     ConfigFile("parsed", PyNone, <<>>),
     ConfigFile("parsed", Ref(Settings), <<List(<<>>)>>),
     ConfigFile("parsed", PyInt(0), <<PyInt(0)>>),
     \* the documents "- a" and "hello"
     ConfigFile("parsed", Ref(Settings), <<List(<<Str("a")>>)>>),
     ConfigFile("parsed", Str("hello"), <<Str("hello")>>)}
    \cup {Mapping(g) : g \in SectionSettings \cup {DefaultSettings}}

\* self.load(): the heap with self.config at address Settings, and the exception
load(h, file) ==
    IF file.state = "missing" THEN [h |-> h \o DefaultSettings, error |-> "none"]
    ELSE IF file.state \in {"unreadable", "syntax_error"}
    THEN [h |-> h \o DefaultSettings, error |-> "none"]
    ELSE IF PyBool(h \o file.objects, file.doc)
    THEN [h |-> h \o file.objects, error |-> "none"]
    ELSE [h |-> h \o <<Dict(<<>>)>>, error |-> "none"]

\* global_config = ConfigLoader() for each file, followed by the calls of main()'s loop
InitLoad ==
    /\ StylingIdle
    /\ DataIdle
    /\ NetIdle
    /\ LET registry == RegistryHeap
       IN  \E file \in ConfigFiles :
              \E r \in {load(registry, file)} :
                  /\ config_file = file
                  /\ heap = r.h
                  /\ loader = IF r.error = "none" THEN Settings ELSE NULL
                  /\ raised = r.error
    /\ preset_config = NULL
    /\ config = NULL
    /\ calls = 0

SpecLoad == InitLoad /\ [][NextConfig]_vars

\* the settings loaded are the built-in defaults
LoadedDefaults ==
    /\ loader # NULL
    /\ \A i \in 1..Len(DefaultSettings) : heap[Settings + i - 1] = DefaultSettings[i]

\* the file is there but cannot be read, or is not a configuration
Malformed ==
    \/ config_file.state \in {"unreadable", "syntax_error"}
    \/ /\ config_file.state = "parsed"
       /\ ~IsNone(config_file.doc)
       /\ ~(IsRef(config_file.doc) /\ IsDict(config_file.objects[1]))

\* C14: whatever is found at config.yaml, ConfigLoader() returns; when the
\* file is unreadable or malformed (a syntax error, or a document that is not
\* a mapping) the settings are the built-in defaults; and apply_to_preset of
\* every registry preset then succeeds.
C14_LoadNeverFatal ==
    ~IsNone(config_file) =>
        /\ loader # NULL
        /\ Malformed => LoadedDefaults
        /\ raised = "none" \/ PyIn("Unknown preset", raised)
        /\ \A name \in KnownPresetKeys :
              apply_to_preset(get_preset(heap, name).h, loader,
                              get_preset(heap, name).ret).error = "none"

(***************************************************************************)
(* src/core/hostname_resolver.py.  An IP is a string; a cache entry is a   *)
(* record with hostname, timestamp and type, and failed for a lookup that  *)
(* failed.  Times are whole days on the clock datetime.now() reads.        *)
(***************************************************************************)
\* the value of a decimal digit, -1 for any other character
DigitOf(c) ==
    IF \E i \in 1..10 : SubSeq("0123456789", i, i) = c
    THEN (CHOOSE i \in 1..10 : SubSeq("0123456789", i, i) = c) - 1
    ELSE -1

\* an octet of a dotted quad as ipaddress reads it: 1..3 digits without a
\* leading zero, at most 255; -1 otherwise
RECURSIVE OctetValue(_, _)
OctetValue(s, acc) ==
    IF s = "" THEN acc
    ELSE IF DigitOf(SubSeq(s, 1, 1)) < 0 THEN -1
    ELSE OctetValue(SubSeq(s, 2, Len(s)), 10 * acc + DigitOf(SubSeq(s, 1, 1)))

Octet(s) ==
    IF Len(s) < 1 \/ Len(s) > 3 THEN -1
    ELSE IF Len(s) > 1 /\ SubSeq(s, 1, 1) = "0" THEN -1
    ELSE IF OctetValue(s, 0) > 255 THEN -1
    ELSE OctetValue(s, 0)

\* the part of s between the dots at positions lo and hi
Between(s, lo, hi) == SubSeq(s, lo + 1, hi - 1)

\* ipaddress.ip_address(ip_str) for an IPv4 string: the four octets, <<>> for ValueError
OctetsAt(s, d1, d2, d3) ==
    <<Octet(Between(s, 0, d1)), Octet(Between(s, d1, d2)),
      Octet(Between(s, d2, d3)), Octet(Between(s, d3, Len(s) + 1))>>

Dots(s) == {i \in 1..Len(s) : SubSeq(s, i, i) = "."}

ip_address(s) ==
    IF Cardinality(Dots(s)) # 3 THEN <<>>
    ELSE LET d1 == CHOOSE i \in Dots(s) : \A j \in Dots(s) : i <= j
             d3 == CHOOSE i \in Dots(s) : \A j \in Dots(s) : i >= j
             d2 == CHOOSE i \in Dots(s) : i # d1 /\ i # d3
             o  == OctetsAt(s, d1, d2, d3)
         IN  IF \E i \in 1..4 : o[i] < 0 THEN <<>> ELSE o

\* IPv4Address.is_private: membership in the private-use networks
is_private(o) ==
    \/ o[1] \in {0, 10, 127}
    \/ o[1] = 169 /\ o[2] = 254
    \/ o[1] = 172 /\ o[2] \in 16..31
    \/ o[1] = 192 /\ o[2] = 0 /\ o[3] = 0 /\ o[4] \in (0..7) \cup {170, 171}
    \/ o[1] = 192 /\ o[2] = 0 /\ o[3] = 2
    \/ o[1] = 192 /\ o[2] = 168
    \/ o[1] = 198 /\ o[2] \in {18, 19}
    \/ o[1] = 198 /\ o[2] = 51 /\ o[3] = 100
    \/ o[1] = 203 /\ o[2] = 0 /\ o[3] = 113
    \/ o[1] >= 240

\* HostnameResolver.is_internal_ip(ip_str)
is_internal_ip(ip_str) ==
    IF ip_address(ip_str) = <<>> THEN FALSE ELSE is_private(ip_address(ip_str))

\* cache_ttl_days=7
cache_ttl_days == 7

\* the cache file: missing, not JSON, or the entries json.dump wrote
NoFile == [state |-> "missing", entries |-> <<>>]
BadFile == [state |-> "corrupt", entries |-> <<>>]
CacheFile(entries) == [state |-> "json", entries |-> entries]

\* _load_cache() that keeps every entry of the file
_load_cache_all(file, now, cache_ttl) == file.entries

\* _load_cache(): the entries of the file younger than the TTL
_load_cache(file, now, cache_ttl) ==
    IF file.state # "json" THEN <<>>
    ELSE [ip \in {k \in DOMAIN file.entries :
                     now - file.entries[k].timestamp < cache_ttl} |-> file.entries[ip]]

\* HostnameResolver(): cache, stats and TTL
HostnameResolver(file, now) ==
    [cache |-> _load_cache(file, now, cache_ttl_days),
     cache_ttl |-> cache_ttl_days,
     stats |-> [cache_hits |-> 0, cache_misses |-> 0, resolved |-> 0, failed |-> 0]]

\* the entries _resolve_single writes
Resolved(ip, hostname, now) ==
    [hostname |-> hostname, timestamp |-> now,
     type |-> IF is_internal_ip(ip) THEN "internal" ELSE "external"]

Unresolved(ip, now) ==
    [hostname |-> ip, timestamp |-> now,
     type |-> IF is_internal_ip(ip) THEN "internal" ELSE "external", failed |-> TRUE]

IsFailed(entry) == "failed" \in DOMAIN entry

(***************************************************************************)
(* _resolve_single(ip) as the steps a worker thread takes.  A task is      *)
(* [ip, pc, tmp, ret, error, via]: pc is the statement it is at, tmp the   *)
(* counter it read for a += 1 it has not written back yet, via how it got  *)
(* its result ("hit" or the outcome of the lookup).  outcome is            *)
(* what socket.gethostbyaddr does when it is called: a name ("ok"), one of *)
(* the errors the except clause names ("herror"), any other exception      *)
(* ("crash").                                                              *)
(***************************************************************************)
Task(ip) ==
    [ip |-> ip, pc |-> "check", tmp |-> 0, ret |-> "", error |-> "none", via |-> "none"]

\* the name DNS has for an address
NameOf(ip) == "host-" \o ip

Bump(self, counter, t) == [self EXCEPT !.stats[counter] = t.tmp + 1]

\* the task returns ret; its local values are gone
Done(t, ret) == [t EXCEPT !.pc = "done", !.tmp = 0, !.ret = ret]

\* a cache test that takes a failed entry for a miss
TaskCheckRetry(self, t) ==
    IF t.ip \in DOMAIN self.cache /\ ~IsFailed(self.cache[t.ip])
    THEN [self |-> self,
          t |-> [t EXCEPT !.pc = "hit", !.tmp = self.stats.cache_hits, !.via = "hit"]]
    ELSE [self |-> self, t |-> [t EXCEPT !.pc = "miss", !.tmp = self.stats.cache_misses]]

\* lines 90-91 and 94: the cache test and the read of the counter
TaskCheck(self, t) ==
    IF t.ip \in DOMAIN self.cache
    THEN [self |-> self,
          t |-> [t EXCEPT !.pc = "hit", !.tmp = self.stats.cache_hits, !.via = "hit"]]
    ELSE [self |-> self, t |-> [t EXCEPT !.pc = "miss", !.tmp = self.stats.cache_misses]]

\* lines 91-92: the counter is written, the cached hostname returned
TaskHit(self, t) ==
    [self |-> Bump(self, "cache_hits", t),
     t |-> Done(t, IF t.ip \in DOMAIN self.cache THEN self.cache[t.ip].hostname ELSE "")]

\* line 94: the counter is written
TaskMiss(self, t) ==
    [self |-> Bump(self, "cache_misses", t), t |-> [t EXCEPT !.pc = "lookup"]]

\* lines 97-106 and 109-116: the lookup, the cache entry, the read of the counter
TaskLookup(self, t, outcome, now) ==
    IF outcome = "ok"
    THEN [self |-> [self EXCEPT !.cache = (t.ip :> Resolved(t.ip, NameOf(t.ip), now)) @@ @],
          t |-> [t EXCEPT !.pc = "resolved", !.tmp = self.stats.resolved, !.via = "ok"]]
    ELSE IF outcome = "herror"
    THEN [self |-> [self EXCEPT !.cache = (t.ip :> Unresolved(t.ip, now)) @@ @],
          t |-> [t EXCEPT !.pc = "failed", !.tmp = self.stats.failed, !.via = "herror"]]
    ELSE [self |-> self,
          t |-> [t EXCEPT !.pc = "done", !.error = "Exception", !.via = "crash"]]

\* lines 107-108
TaskResolved(self, t) ==
    [self |-> Bump(self, "resolved", t), t |-> Done(t, NameOf(t.ip))]

\* lines 117-118
TaskFailed(self, t) ==
    [self |-> Bump(self, "failed", t), t |-> Done(t, t.ip)]

\* the next step of a task
TaskStep(self, t, outcome, now) ==
    IF t.pc = "check" THEN TaskCheck(self, t)
    ELSE IF t.pc = "hit" THEN TaskHit(self, t)
    ELSE IF t.pc = "miss" THEN TaskMiss(self, t)
    ELSE IF t.pc = "lookup" THEN TaskLookup(self, t, outcome, now)
    ELSE IF t.pc = "resolved" THEN TaskResolved(self, t)
    ELSE TaskFailed(self, t)

\* _resolve_single(ip) called by one thread: the steps up to the return
RECURSIVE RunTask(_, _, _)
RunTask(r, outcome, now) ==
    IF r.t.pc = "done" THEN r ELSE RunTask(TaskStep(r.self, r.t, outcome, now), outcome, now)

_resolve_single(self, ip, outcome, now) == RunTask([self |-> self, t |-> Task(ip)], outcome, now)

(***************************************************************************)
(* One HostnameResolver and the calls made on it: _resolve_single and      *)
(* get_hostname by the main thread, and resolve_batch, whose worker tasks  *)
(* run _resolve_single step by step in any interleaving while the main     *)
(* thread collects the futures that have completed.                        *)
(***************************************************************************)
MaxLookups == 2
MaxTicks == 1

Addresses == {"10.0.0.5", "8.8.8.8"}

Outcomes == {"ok", "herror", "crash"}

\* the lists of up to as many IPs as there are addresses, repetitions included
IPLists == UNION {[1..n -> Addresses] : n \in 0..Cardinality(Addresses)}

\* cache files written on earlier days
CacheFiles ==
    {NoFile, BadFile,
     CacheFile(("10.0.0.5" :> Resolved("10.0.0.5", "gw.example.org", -6))
               @@ ("8.8.8.8" :> Unresolved("8.8.8.8", -7))),
     CacheFile(("10.0.0.5" :> Unresolved("10.0.0.5", -6))
               @@ ("8.8.8.8" :> Resolved("8.8.8.8", "dns.example.net", -8)))}

NoReturn ==
    [fn |-> "none", ip |-> "", ret |-> "", error |-> "none", results |-> <<>>,
     tasks |-> <<>>, ip_list |-> <<>>, internal_only |-> FALSE]

NoBatch == [phase |-> "idle", ip_list |-> <<>>, internal_only |-> FALSE, results |-> <<>>]

InitResolver ==
    /\ ConfigIdle
    /\ FileIdle
    /\ StylingIdle
    /\ df = PyNone
    /\ top_n = PyNone
    /\ viz_data = PyNone
    /\ risk_report = PyNone
    /\ graph = PyNone
    /\ \E file \in CacheFiles :
          /\ hostname_resolver = HostnameResolver(file, 0)
          /\ net = [now |-> 0, ticks |-> 0, disk |-> file, persisted |-> file,
                    history |-> [ip \in Addresses |-> <<>>],
                    pool |-> <<>>, batch |-> NoBatch, last |-> NoReturn]

Idle == net.batch.phase = "idle"

\* the lookups made for ip, with the one a step makes now
Attempted(history, t, outcome) ==
    IF t.pc = "lookup" THEN [history EXCEPT ![t.ip] = Append(@, outcome)] ELSE history

\* hostname = self._resolve_single(ip) on the main thread
ResolveSingle ==
    /\ Idle
    /\ calls < MaxLookups
    /\ \E ip \in Addresses, outcome \in Outcomes :
          \E r \in {_resolve_single(hostname_resolver, ip, outcome, net.now)} :
              /\ hostname_resolver' = r.self
              /\ net' = [net EXCEPT
                    !.history = IF ip \in DOMAIN hostname_resolver.cache THEN @
                                ELSE [@ EXCEPT ![ip] = Append(@, outcome)],
                    !.last = [NoReturn EXCEPT !.fn = "_resolve_single", !.ip = ip,
                                              !.ret = r.t.ret, !.error = r.t.error]]
    /\ calls' = calls + 1
    /\ UNCHANGED <<heap, loader, preset_config, config, raised, sty, df, top_n,
                   viz_data, risk_report, graph, config_file>>

\* hostname = self.get_hostname(ip)
GetHostname ==
    /\ Idle
    /\ calls < MaxLookups
    /\ \E ip \in Addresses :
          net' = [net EXCEPT !.last = [NoReturn EXCEPT !.fn = "get_hostname", !.ip = ip,
                                          !.ret = get_hostname(hostname_resolver, ip)]]
    /\ calls' = calls + 1
    /\ UNCHANGED <<heap, loader, preset_config, config, raised, sty, df, top_n,
                   viz_data, risk_report, hostname_resolver, graph, config_file>>

\* list(set(ip_list)) without the filter
all_ips(ip_list, internal_only) == {ip_list[i] : i \in DOMAIN ip_list}

\* lines 136-140: list(set(ip_list)), filtered when internal_only
unique_ips(ip_list, internal_only) ==
    {ip \in {ip_list[i] : i \in DOMAIN ip_list} : internal_only => is_internal_ip(ip)}

\* resolve_batch(ip_list, internal_only=...) up to the submission of the tasks
ResolveBatch ==
    /\ Idle
    /\ calls < MaxLookups
    /\ \E ip_list \in IPLists, internal_only \in BOOLEAN :
          net' = [net EXCEPT
                    !.pool = [ip \in unique_ips(ip_list, internal_only) |-> Task(ip)],
                    !.batch = [phase |-> "running", ip_list |-> ip_list,
                               internal_only |-> internal_only, results |-> <<>>],
                    !.last = NoReturn]
    /\ calls' = calls + 1
    /\ UNCHANGED <<heap, loader, preset_config, config, raised, sty, df, top_n,
                   viz_data, risk_report, hostname_resolver, graph, config_file>>

\* a worker thread takes the next step of its task
Worker ==
    /\ ~Idle
    /\ \E ip \in DOMAIN net.pool, outcome \in Outcomes :
          /\ net.pool[ip].pc # "done"
          /\ \E r \in {TaskStep(hostname_resolver, net.pool[ip], outcome, net.now)} :
                /\ hostname_resolver' = r.self
                /\ net' = [net EXCEPT
                      !.history = Attempted(@, net.pool[ip], outcome),
                      !.pool[ip] = r.t]
    /\ UNCHANGED <<heap, loader, preset_config, config, raised, calls, sty, df, top_n,
                   viz_data, risk_report, graph, config_file>>

\* lines 156-167: the main thread takes a completed future
Collect ==
    /\ ~Idle
    /\ \E ip \in DOMAIN net.pool \ DOMAIN net.batch.results :
          /\ net.pool[ip].pc = "done"
          /\ net' = [net EXCEPT !.batch.results =
                        (ip :> IF net.pool[ip].error = "none" THEN net.pool[ip].ret ELSE ip)
                        @@ @]
    /\ UNCHANGED <<heap, loader, preset_config, config, raised, calls, sty, df, top_n,
                   viz_data, risk_report, hostname_resolver, graph, config_file>>

\* lines 169-178: every future is collected; the cache is written to the file
\* (a write that fails only prints a warning) and the mapping returned
SaveAndReturn ==
    /\ ~Idle
    /\ DOMAIN net.batch.results = DOMAIN net.pool
    /\ net' = [net EXCEPT
                    !.disk = CacheFile(hostname_resolver.cache),
                    !.pool = <<>>,
                    !.batch = NoBatch,
                    !.last = [NoReturn EXCEPT !.fn = "resolve_batch",
                                 !.results = net.batch.results, !.tasks = net.pool,
                                 !.ip_list = net.batch.ip_list,
                                 !.internal_only = net.batch.internal_only]]
    /\ UNCHANGED <<heap, loader, preset_config, config, raised, calls, sty, df, top_n,
                   viz_data, risk_report, hostname_resolver, graph, config_file>>

\* a day passes
Tick ==
    /\ Idle
    /\ net.ticks < MaxTicks
    /\ net' = [net EXCEPT !.now = @ + 1, !.ticks = @ + 1]
    /\ UNCHANGED <<heap, loader, preset_config, config, raised, calls, sty, df, top_n,
                   viz_data, risk_report, hostname_resolver, graph, config_file>>

NextResolver == ResolveSingle \/ GetHostname \/ ResolveBatch \/ Worker \/ Collect
                \/ SaveAndReturn \/ Tick

SpecResolver == InitResolver /\ [][NextResolver]_vars


\* C15: once a DNS lookup of an IP has failed the cache holds the IP as a
\* failed entry with the IP as hostname, no later call makes another DNS
\* attempt for it, and every later call returns the IP itself.
C15_FailedNotRetried ==
    /\ \A ip \in Addresses :
          \A k \in DOMAIN net.history[ip] :
              net.history[ip][k] = "herror" =>
                  /\ k = Len(net.history[ip])
                  /\ ip \in DOMAIN hostname_resolver.cache
                  /\ IsFailed(hostname_resolver.cache[ip])
                  /\ hostname_resolver.cache[ip].hostname = ip
    /\ (net.last.fn \in {"_resolve_single", "get_hostname"}
        /\ net.history[net.last.ip] # <<>>
        /\ net.history[net.last.ip][Len(net.history[net.last.ip])] = "herror")
          => net.last.error = "none" /\ net.last.ret = net.last.ip
    /\ net.last.fn = "resolve_batch" =>
          \A ip \in DOMAIN net.last.results :
              (net.history[ip] # <<>> /\ net.history[ip][Len(net.history[ip])] = "herror")
                  => net.last.results[ip] = ip

\* C15 witness: a lookup of 8.8.8.8 failed, and a later _resolve_single of
\* it was answered from the cache with the IP itself
C15_Witness ==
    /\ net.history["8.8.8.8"] = <<"herror">>
    /\ hostname_resolver.stats.failed = 1
    /\ hostname_resolver.stats.cache_hits = 1
    /\ net.last.fn = "_resolve_single"
    /\ net.last.ip = "8.8.8.8"
    /\ net.last.ret = "8.8.8.8"

\* the addresses of the model that are private
Internal == {"10.0.0.5"}

\* what resolve_batch has to return for the tasks it ran
MappingComplete ==
    /\ DOMAIN net.last.results =
          {ip \in {net.last.ip_list[i] : i \in DOMAIN net.last.ip_list} :
              net.last.internal_only => ip \in Internal}
    /\ DOMAIN net.last.tasks = DOMAIN net.last.results
    /\ \A ip \in DOMAIN net.last.results :
          /\ net.last.tasks[ip].pc = "done"
          /\ net.last.tasks[ip].via = "ok" => net.last.results[ip] = "host-" \o ip
          /\ net.last.tasks[ip].via \in {"herror", "crash"} => net.last.results[ip] = ip
          /\ net.last.tasks[ip].via = "hit" =>
                net.last.results[ip] = hostname_resolver.cache[ip].hostname

Returned == net.last.fn = "resolve_batch"

\* the steps a task has left at most
StepsLeft(t) ==
    IF t.pc = "check" THEN 4
    ELSE IF t.pc = "miss" THEN 3
    ELSE IF t.pc = "lookup" THEN 2
    ELSE IF t.pc = "done" THEN 0
    ELSE 1

RECURSIVE StepsOf(_, _)
StepsOf(pool, S) ==
    IF S = {} THEN 0
    ELSE LET ip == CHOOSE x \in S : TRUE
         IN  StepsLeft(pool[ip]) + StepsOf(pool, S \ {ip})

\* the steps a running batch has left at most: those of its tasks, one per
\* future to collect, and the return
Remaining ==
    IF Idle THEN 0
    ELSE StepsOf(net.pool, DOMAIN net.pool)
         + Cardinality(DOMAIN net.pool \ DOMAIN net.batch.results) + 1

\* a task can step, a future can be collected, or the batch can return
CanStep ==
    \/ \E ip \in DOMAIN net.pool : net.pool[ip].pc # "done"
    \/ \E ip \in DOMAIN net.pool \ DOMAIN net.batch.results : net.pool[ip].pc = "done"
    \/ DOMAIN net.batch.results = DOMAIN net.pool

\* C16: resolve_batch returns - while it runs a step is always possible and
\* every step brings the return nearer - and the mapping it returns has
\* exactly one entry for every unique IP of the list that passes the
\* internal-only filter: the resolved hostname when the lookup succeeded,
\* the IP when it failed or raised, whatever the other tasks did.
C16_BatchIsolated ==
    [][/\ Returned' => MappingComplete'
       /\ ~Idle => Remaining' < Remaining
       /\ ~Idle' => CanStep']_vars

\* C16 witness: a batch returned in which one lookup raised and the other
\* task resolved its address
C16_Witness ==
    /\ Returned
    /\ DOMAIN net.last.tasks = {"10.0.0.5", "8.8.8.8"}
    /\ net.last.tasks["10.0.0.5"].via = "crash"
    /\ net.last.results["10.0.0.5"] = "10.0.0.5"
    /\ net.last.tasks["8.8.8.8"].via = "ok"
    /\ net.last.results["8.8.8.8"] = "host-8.8.8.8"

\* C17: while resolve_batch runs, nothing of the resolver's shared state is
\* written before every lookup task has completed: no worker writes the
\* cache, and the counters are not written at all.
C17_SingleWriter ==
    [][(~Idle /\ hostname_resolver' # hostname_resolver) =>
          /\ \A ip \in DOMAIN net.pool : net.pool[ip].pc = "done"
          /\ hostname_resolver'.stats = hostname_resolver.stats]_vars

\* the entries of the file the resolver was constructed from that were
\* younger than the TTL on that day (day 0)
Fresh == {ip \in DOMAIN net.persisted.entries :
             0 - net.persisted.entries[ip].timestamp < 7}

\* C18: the cache of a new resolver holds exactly the persisted entries
\* younger than the TTL; afterwards no entry is dropped and an entry is
\* served from the cache, without a DNS attempt, however old it has become.
C18_ExpiryAtLoadOnly ==
    /\ (calls = 0 /\ Idle) => DOMAIN hostname_resolver.cache = Fresh
    /\ \A ip \in Fresh :
          /\ ip \in DOMAIN hostname_resolver.cache
          /\ hostname_resolver.cache[ip] = net.persisted.entries[ip]
          /\ net.history[ip] = <<>>
    /\ (net.last.fn \in {"_resolve_single", "get_hostname"} /\ net.last.ip \in Fresh)
          => net.last.ret = net.persisted.entries[net.last.ip].hostname
    /\ net.last.fn = "resolve_batch" =>
          \A ip \in DOMAIN net.last.results \cap Fresh :
              net.last.results[ip] = net.persisted.entries[ip].hostname

\* C18 witness: an entry six days old at construction is seven days old a
\* day later and _resolve_single still answers from it
C18_Witness ==
    /\ "10.0.0.5" \in Fresh
    /\ net.now - hostname_resolver.cache["10.0.0.5"].timestamp >= hostname_resolver.cache_ttl
    /\ "8.8.8.8" \in DOMAIN net.persisted.entries \ DOMAIN hostname_resolver.cache
    /\ net.last.fn = "_resolve_single"
    /\ net.last.ip = "10.0.0.5"
    /\ net.last.ret = "gw.example.org"
    /\ hostname_resolver.stats.cache_hits = 1


(***************************************************************************)
(* The override bundles and the node / edge settings of config.yaml, read  *)
(* off the resolved configuration after apply_to_preset.                   *)
(***************************************************************************)
\* self.config['presets'], empty when the settings have no such section
Overrides ==
    IF Has(heap[loader], "presets") THEN heap[heap[loader].at["presets"].ref]
    ELSE Dict(<<>>)

\* the name of registry entry e, lower-cased, spaces replaced by underscores
NormalizedName(e) == PyReplace(PyLower(RegistryHeap[e].at["name"].str), " ", "_")

\* the positions of the override keys that are preset keys and match the name
Matching(e) ==
    {i \in 1..Len(Overrides.keys) :
        /\ Overrides.keys[i] \in {"intensity", "heatmap", "micro", "balanced"}
        /\ \/ PyIn(Overrides.keys[i], NormalizedName(e))
           \/ PyIn(NormalizedName(e), Overrides.keys[i])}

\* the bundle of the first matching key, empty when no key matches
FirstBundle(e) ==
    IF Matching(e) = {} THEN Dict(<<>>)
    ELSE LET first == CHOOSE i \in Matching(e) : \A j \in Matching(e) : i <= j
         IN  heap[Overrides.at[Overrides.keys[first]].ref]

\* the keys the edge settings replace whatever the configuration holds
AlwaysReplaced ==
    IF Truthy(heap, loader, "edge_settings")
    THEN {"scale_arrows_with_edges", "base_arrow_scale"}
         \cap DOMAIN heap[heap[loader].at["edge_settings"].ref].at
    ELSE {}

\* C19: apply_to_preset merges at most one override bundle: the one of the
\* first key, in the order of the override mapping, that is a preset key and
\* a substring of the preset's normalized name (or the name of it).  Every
\* key of that bundle replaces the whole value in the configuration, and no
\* other bundle changes anything, even when its key matches too: the other
\* values are the preset's.
C19_FirstMatchOnly ==
    config # NULL =>
        \A e \in SourcePresets :
            /\ \A k \in DOMAIN FirstBundle(e).at \ AlwaysReplaced :
                  /\ Has(heap[config], k)
                  /\ heap[config].at[k] = FirstBundle(e).at[k]
            /\ \A k \in DOMAIN RegistryHeap[e].at \ DOMAIN FirstBundle(e).at :
                  /\ Has(heap[config], k)
                  /\ ~IsRef(RegistryHeap[e].at[k])
                        => heap[config].at[k] = RegistryHeap[e].at[k]
                  /\ IsRef(RegistryHeap[e].at[k])
                        => \A b \in DOMAIN Overrides.at :
                              heap[config].at[k]
                                  # DictGet(heap[Overrides.at[b].ref], k, PyNone)

\* C19 witness: the overrides list 'scale', 'micro', 'heatmap'; the preset
\* 'Micro-Scale Heatmap' matches the last two and has taken top_n and the
\* whole theme of the 'micro' bundle, nothing of 'scale' or 'heatmap'.
C19_Witness ==
    /\ config # NULL
    /\ Overrides.keys = <<"scale", "micro", "heatmap">>
    /\ heap[config].at["name"] = Str("Micro-Scale Heatmap")
    /\ Matching(4) = {2, 3}
    /\ heap[config].at["top_n"] = PyInt(50)
    /\ heap[config].at["theme"] = Ref(Settings + 4)
    /\ heap[config].at["color_mode"] = RegistryHeap[4].at["color_mode"]
    /\ heap[config].at["color_mode"] # Str("gradient")

\* the preset, or the override bundle merged into it, defines key
Defines(e, key) == key \in DOMAIN RegistryHeap[e].at \cup DOMAIN FirstBundle(e).at

\* the value of key before the node and edge settings are applied
Prior(e, key) ==
    IF Has(FirstBundle(e), key) THEN FirstBundle(e).at[key] ELSE RegistryHeap[e].at[key]

\* self.config[section], a non-empty mapping
SettingsOf(section) == heap[heap[loader].at[section].ref]

\* C20: node_settings.default_size_range, edge_settings.default_width_range
\* and edge_settings.opacity are written into the resolved configuration
\* only when the preset plus its merged override bundle does not define
\* node_size_range, edge_width_range or edge_opacity; scale_arrows_with_edges
\* and base_arrow_scale of edge_settings, when present, always replace the
\* resolved value.
C20_SettingsPriority ==
    config # NULL =>
        \A e \in SourcePresets :
            /\ (/\ Truthy(heap, loader, "node_settings")
                /\ Has(SettingsOf("node_settings"), "default_size_range"))
               => (heap[config].at["node_size_range"]
                       = SettingsOf("node_settings").at["default_size_range"]
                   <=> ~Defines(e, "node_size_range"))
            /\ Truthy(heap, loader, "edge_settings") =>
                /\ Has(SettingsOf("edge_settings"), "default_width_range")
                   => (heap[config].at["edge_width_range"]
                           = SettingsOf("edge_settings").at["default_width_range"]
                       <=> ~Defines(e, "edge_width_range"))
                /\ Has(SettingsOf("edge_settings"), "opacity")
                   => heap[config].at["edge_opacity"]
                          = IF Defines(e, "edge_opacity") THEN Prior(e, "edge_opacity")
                            ELSE SettingsOf("edge_settings").at["opacity"]
                /\ \A k \in AlwaysReplaced :
                      heap[config].at[k] = SettingsOf("edge_settings").at[k]

\* C20 witness: the 'intensity' bundle supplies edge_opacity 0.9, a width
\* range and both arrow keys, the edge settings supply all of them too: the
\* resolved configuration keeps the bundle's opacity and range and has the
\* arrow keys of the edge settings.
C20_Witness ==
    /\ config # NULL
    /\ Truthy(heap, loader, "edge_settings")
    /\ heap[config].at["name"] = Str("Intensity Map")
    /\ Has(FirstBundle(2), "scale_arrows_with_edges")
    /\ heap[config].at["edge_opacity"] = Num(Dec(9, 10))
    /\ heap[config].at["edge_width_range"] = Ref(Settings + 3)
    /\ heap[config].at["scale_arrows_with_edges"] = Bool(TRUE)
    /\ heap[config].at["base_arrow_scale"] = Num(Dec(5, 10))
    /\ SettingsOf("edge_settings").at["opacity"] = Num(Dec(8, 10))


(***************************************************************************)
(* The threshold colours, with the ratio value / max compared as a         *)
(* fraction of integers.                                                   *)
(***************************************************************************)
\* the thresholds of the calls as fractions <<numerator, denominator>>
Fractions ==
    { << <<2, 10>>, <<6, 10>> >>,
      << <<15, 100>>, <<4, 10>>, <<7, 10>> >>,
      << <<2, 10>>, <<5, 10>>, <<8, 10>> >> }

\* the thresholds of the recorded call, as fractions
FractionsOfCall ==
    {T \in Fractions : sty.target_min = [i \in 1..Len(T) |-> Dec(T[i][1], T[i][2])]}

\* how many thresholds of T are <= value / max
Reached(T, value, max) ==
    Cardinality({i \in 1..Len(T) : T[i][1] * max <= value * T[i][2]})

\* C21: for max > 0, get_color_gradient returns green below the first
\* threshold, orange from the first up to the second and red from the second
\* on; get_heatmap_color returns green, yellow, orange or red for 0, 1, 2 or
\* 3 thresholds <= value / max (a ratio equal to a threshold is in the higher
\* bucket); for max = 0 both return green without a division.
C21_ThresholdBuckets ==
    sty.a.fn \in {"get_color_gradient", "get_heatmap_color"} =>
        /\ sty.a.out.error = "none"
        /\ sty.max_val = 0 =>
              /\ sty.a.out.value = "#2ecc71"
              /\ sty.a.out.divisions = 0
        /\ sty.max_val > 0 =>
              \A T \in FractionsOfCall :
                  sty.a.out.value =
                      IF sty.a.fn = "get_color_gradient"
                      THEN <<"#2ecc71", "#f39c12", "#e74c3c">>
                               [Reached(T, sty.a.val, sty.max_val) + 1]
                      ELSE <<"#2ecc71", "#f1c40f", "#e67e22", "#e74c3c">>
                               [Reached(T, sty.a.val, sty.max_val) + 1]
        /\ FractionsOfCall # {}

\* C21 witness: get_color_gradient(20, 100) with thresholds (0.2, 0.6): the
\* ratio equals the first threshold and the colour is orange.
C21_Witness ==
    /\ sty.a.fn = "get_color_gradient"
    /\ sty.max_val = 100
    /\ sty.a.val = 20
    /\ sty.a.out.value = "#f39c12"


(***************************************************************************)
(* The nodes and edges of the built graph against the aggregated rows and  *)
(* the resolved configuration.                                             *)
(***************************************************************************)
Built == ~IsNone(graph) /\ graph.error = "none"

\* inbound hits of dst
TargetTotal(rows, dst) ==
    HitsOver(rows, {i \in DOMAIN rows : rows[i]["Destination IP"] = dst})

\* the largest attacker volume and the largest target volume
MaxAttackerVolume(rows) ==
    CHOOSE v \in {SourceTotal(rows, ip) : ip \in SourcesOf(rows)} :
        \A ip \in SourcesOf(rows) : SourceTotal(rows, ip) <= v
MaxTargetVolume(rows) ==
    CHOOSE v \in {TargetTotal(rows, ip) : ip \in TargetsIn(rows)} :
        \A ip \in TargetsIn(rows) : TargetTotal(rows, ip) <= v

\* the configured method applied to vol over 0..max_vol into config[key]
MethodSize(vol, max_vol, key) ==
    IF heap[config].at["node_scale_method"] = Str("sqrt")
    THEN scale_sqrt(vol, 0, max_vol, Range(key)[1], Range(key)[2]).value
    ELSE scale_linear(vol, 0, max_vol, Range(key)[1], Range(key)[2]).value

\* C22: in a graph built with node_sizing 'separate', an IP that is only a
\* source has the size the configured method (sqrt or linear) gives its
\* outbound hits over 0..largest attacker volume into node_size_range, and an
\* IP that is only a destination the size the method gives its inbound hits
\* over 0..largest target volume into target_size_range.
C22_SeparateSizes ==
    (Built /\ ~Combined) =>
        /\ \A ip \in SourcesOf(viz_data.rows) \ TargetsIn(viz_data.rows) :
              graph.node[ip]["size"]
                  = Num(MethodSize(SourceTotal(viz_data.rows, ip),
                                   MaxAttackerVolume(viz_data.rows), "node_size_range"))
        /\ \A ip \in TargetsIn(viz_data.rows) \ SourcesOf(viz_data.rows) :
              graph.node[ip]["size"]
                  = Num(MethodSize(TargetTotal(viz_data.rows, ip),
                                   MaxTargetVolume(viz_data.rows), "target_size_range"))

\* C22 witness: the micro preset (sqrt, node sizes [2, 8], target sizes
\* [6, 6]) on A->C 10, B->C 1: B, only a source with a tenth of the largest
\* attacker volume, has a size strictly inside [2, 8], and C, only a target, 6.
C22_Witness ==
    /\ Built
    /\ ~Combined
    /\ heap[config].at["node_scale_method"] = Str("sqrt")
    /\ viz_data.rows \in LabelRows
    /\ "B" \in SourcesOf(viz_data.rows) \ TargetsIn(viz_data.rows)
    /\ FLt(FromInt(2), graph.node["B"]["size"].num)
    /\ FLt(graph.node["B"]["size"].num, FromInt(8))
    /\ graph.node["A"]["size"] = Num(FromInt(8))
    /\ graph.node["C"]["size"] = Num(FromInt(6))


\* the resolved configuration defines a label_threshold ratio
HasLabelThreshold ==
    /\ Has(heap[config], "label_threshold")
    /\ PyBool(heap, heap[config].at["label_threshold"])

\* the label _format_node_label gives ip under the resolved configuration
FormattedLabel(ip) ==
    _format_node_label([h |-> heap, config |-> config, viz_data |-> viz_data,
                        hostname_resolver |-> hostname_resolver],
                       ip,
                       _get_hostname([hostname_resolver |-> hostname_resolver], ip))

\* C23: when the resolved configuration defines label_threshold (0.1 in the
\* registry), the label of every source node of the built graph is blank
\* unless the node's outbound volume is strictly greater than label_threshold
\* times the largest attacker volume, and then it is the formatted label.
C23_LabelSuppressed ==
    (Built /\ HasLabelThreshold /\ heap[config].at["label_threshold"] = Num(Dec(1, 10))) =>
        \A ip \in SourcesOf(viz_data.rows) :
            graph.node[ip]["label"] =
                IF 10 * SourceTotal(viz_data.rows, ip) > MaxAttackerVolume(viz_data.rows)
                THEN Str(FormattedLabel(ip))
                ELSE Str("")

\* the same for the nodes that are sources only
C23_SourceOnlySuppressed ==
    (Built /\ HasLabelThreshold /\ heap[config].at["label_threshold"] = Num(Dec(1, 10))) =>
        \A ip \in SourcesOf(viz_data.rows) \ TargetsIn(viz_data.rows) :
            graph.node[ip]["label"] =
                IF 10 * SourceTotal(viz_data.rows, ip) > MaxAttackerVolume(viz_data.rows)
                THEN Str(FormattedLabel(ip))
                ELSE Str("")


\* the flag of the resolved hostname_labels section, False when not given
LabelFlag(key) ==
    /\ Has(heap[config], "hostname_labels")
    /\ DictGet(heap[heap[config].at["hostname_labels"].ref], key, Bool(FALSE)) = Bool(TRUE)

\* a resolver is present and holds for ip a hostname other than ip
HasHostname(ip) ==
    /\ ~IsNone(hostname_resolver)
    /\ ip \in DOMAIN hostname_resolver.cache
    /\ hostname_resolver.cache[ip].hostname # ip

\* C24 as stated: the label is the hostname alone when prefer_hostname is
\* set, "IP\nhostname" when show_both is set and the IP by default, the
\* hostname used only when a resolved hostname other than the IP exists.
C24_LabelFormat ==
    (Built /\ ~HasLabelThreshold) =>
        \A ip \in DOMAIN graph.node :
            graph.node[ip]["label"] =
                IF ~HasHostname(ip) THEN Str(ip)
                ELSE IF LabelFlag("prefer_hostname")
                THEN Str(hostname_resolver.cache[ip].hostname)
                ELSE IF LabelFlag("show_both")
                THEN Str(ip \o "\n" \o hostname_resolver.cache[ip].hostname)
                ELSE Str(ip)

\* C24, amended: the hostname appears in a label only when show_in_labels is
\* set and a resolved hostname other than the IP exists; then the label is
\* the hostname alone when prefer_hostname is set, otherwise "IP\nhostname"
\* when show_both is set, otherwise the IP.  In every other case it is the IP.
C24_LabelFormatGated ==
    (Built /\ ~HasLabelThreshold) =>
        \A ip \in DOMAIN graph.node :
            graph.node[ip]["label"] =
                IF ~HasHostname(ip) \/ ~LabelFlag("show_in_labels") THEN Str(ip)
                ELSE IF LabelFlag("prefer_hostname")
                THEN Str(hostname_resolver.cache[ip].hostname)
                ELSE IF LabelFlag("show_both")
                THEN Str(ip \o "\n" \o hostname_resolver.cache[ip].hostname)
                ELSE Str(ip)

\* C24 witness: show_in_labels and show_both set, prefer_hostname not: A,
\* resolved to gw.example.org, is labelled with both, and B, whose lookup
\* failed, with its IP.
C24_Witness ==
    /\ Built
    /\ ~HasLabelThreshold
    /\ LabelFlag("show_in_labels")
    /\ LabelFlag("show_both")
    /\ ~LabelFlag("prefer_hostname")
    /\ HasHostname("A")
    /\ ~HasHostname("B")
    /\ graph.node["A"]["label"] = Str("A\ngw.example.org")
    /\ graph.node["B"]["label"] = Str("B")


\* the resolved configuration scales the arrows with the edges
ScalesArrows ==
    /\ Has(heap[config], "scale_arrows_with_edges")
    /\ PyBool(heap, heap[config].at["scale_arrows_with_edges"])

\* base_arrow_scale of the resolved configuration, 0.5 when not given
BaseArrowScale == DictGet(heap[config], "base_arrow_scale", Num(Dec(5, 10))).num

\* every edge has a width and, when arrows are scaled, the scale factor
\* base_arrow_scale * (width / edge_width_range[0])
EdgesComplete ==
    \A e \in DOMAIN graph.adj :
        /\ "width" \in DOMAIN graph.adj[e]
        /\ "num" \in DOMAIN graph.adj[e]["width"]
        /\ ScalesArrows =>
              /\ "arrows" \in DOMAIN graph.adj[e]
              /\ "num" \in DOMAIN graph.adj[e]["arrows"]["to"]["scaleFactor"]
              /\ graph.adj[e]["arrows"]["to"]["scaleFactor"].num
                     = FMul(BaseArrowScale,
                            FDiv(graph.adj[e]["width"].num, Range("edge_width_range")[1]))

\* C25: for every non-empty aggregated input, hits all zero or all equal
\* included, and every resolved configuration (any edge-width multiplier,
\* arrows scaled or not, either sizing mode) build() completes without a
\* division by zero, every edge has a width and, with scale_arrows_with_edges,
\* the arrow scale base_arrow_scale * (width / edge_width_range[0]).
C25_NoDivisionByZero ==
    ~IsNone(graph) =>
        /\ graph.error = "none"
        /\ EdgesComplete

\* the same for configurations whose smallest edge width is not zero
C25_NonzeroWidthComplete ==
    (~IsNone(graph) /\ Range("edge_width_range")[1].sg # 0) =>
        /\ graph.error = "none"
        /\ EdgesComplete


\* the key under which the registry holds entry e
RegistryKey(e) ==
    CHOOSE k \in DOMAIN RegistryHeap[PRESETS].at : RegistryHeap[PRESETS].at[k] = Ref(e)

\* the resolved configuration holds under k the value bundle b supplies,
\* which neither the preset nor the preset's own bundle supplies
TakenFrom(e, b, k) ==
    /\ Has(heap[config], k)
    /\ heap[config].at[k] = heap[Overrides.at[b].ref].at[k]
    /\ heap[config].at[k] # DictGet(RegistryHeap[e], k, PyNone)
    /\ Has(Overrides, RegistryKey(e))
          => heap[config].at[k]
                 # DictGet(heap[Overrides.at[RegistryKey(e)].ref], k, PyNone)

\* C26: whatever the override mapping, the only bundle apply_to_preset merges
\* into the configuration of a registry preset is the one stored under the
\* preset's own registry key: nothing of a bundle stored under another key
\* ('heatmap' when resolving 'micro') is in the resolved configuration.
C26_OwnBundleOnly ==
    config # NULL =>
        \A e \in SourcePresets :
            \A b \in DOMAIN Overrides.at \ {RegistryKey(e)} :
                \A k \in DOMAIN heap[Overrides.at[b].ref].at : ~TakenFrom(e, b, k)

\* the same for the presets whose name contains no other preset's key
C26_OwnBundleOnlyPlainNames ==
    config # NULL =>
        \A e \in SourcePresets \ {4} :
            \A b \in DOMAIN Overrides.at \ {RegistryKey(e)} :
                \A k \in DOMAIN heap[Overrides.at[b].ref].at : ~TakenFrom(e, b, k)


\* the objects of the global settings are those of g
SettingsAre(g) ==
    \A i \in 1..Len(g) : SameObject(heap[Settings + i - 1], g[i])

\* C27: after any sequence of apply_to_preset calls the global settings,
\* the override bundles under 'presets' and the sections nested in them
\* included, compare equal to what they were when loaded.
C27_SettingsUnchanged ==
    loader # NULL => \E g \in GlobalSettings : SettingsAre(g)

\* the same for global settings without override bundles
C27_SettingsUnchangedNoBundles ==
    (loader # NULL /\ ~Has(heap[loader], "presets")) =>
        \E g \in GlobalSettings : SettingsAre(g)


\* the graph build() returns for the rows taken in the order f
BuiltInOrder(f) ==
    build([h |-> heap, config |-> config,
           viz_data |-> DataFrame([i \in DOMAIN viz_data.rows |-> viz_data.rows[f[i]]]),
           hostname_resolver |-> hostname_resolver])

\* C28: for every permutation of the aggregated rows build() yields the same
\* nodes and edges with the same attributes (size, color, label, tooltip,
\* border attributes), in combined and in separate sizing mode, also for an
\* IP that is both a source and a destination.
C28_RowOrderIrrelevant ==
    Built =>
        \A f \in Orders(Len(viz_data.rows)) :
            /\ BuiltInOrder(f).node = graph.node
            /\ BuiltInOrder(f).adj = graph.adj

\* the same for frames in which no IP is both a source and a destination
C28_RowOrderIrrelevantOneRole ==
    (Built /\ SourcesOf(viz_data.rows) \cap TargetsIn(viz_data.rows) = {}) =>
        \A f \in Orders(Len(viz_data.rows)) :
            /\ BuiltInOrder(f).node = graph.node
            /\ BuiltInOrder(f).adj = graph.adj


\* config[key] is a range [min, max] with min <= max
Ordered(key) == FLe(Range(key)[1], Range(key)[2])

\* x lies between the bounds of config[key]
Within(x, key) == FLe(Range(key)[1], x) /\ FLe(x, Range(key)[2])

\* the ranges the built graph uses are ordered
RangesOrdered ==
    /\ Ordered("node_size_range")
    /\ Ordered("edge_width_range")
    /\ ~Combined => Ordered("target_size_range")

\* every node size lies in the size range used for the node, every edge
\* width in edge_width_range
SizesInRange ==
    /\ \A ip \in DOMAIN graph.node :
          \/ /\ Combined \/ ip \in SourcesOf(viz_data.rows)
             /\ Within(graph.node[ip]["size"].num, "node_size_range")
          \/ /\ ~Combined
             /\ ip \in TargetsIn(viz_data.rows)
             /\ Within(graph.node[ip]["size"].num, "target_size_range")
    /\ \A e \in DOMAIN graph.adj :
          Within(graph.adj[e]["width"].num, "edge_width_range")

\* C29: for every aggregated input and every configuration whose ranges
\* satisfy min <= max, after build() every node's size lies between the
\* bounds of the size range used for it (node_size_range or
\* target_size_range) and every edge's width between the bounds of
\* edge_width_range, in each sizing mode and for each edge_scale_method.
C29_AttributesInRange ==
    (Built /\ RangesOrdered) => SizesInRange

\* min + (max - min) computed in floating point is max
ExactSpan(key) ==
    FAdd(Range(key)[1], FSub(Range(key)[2], Range(key)[1])) = Range(key)[2]

\* the same for ranges whose span is exact in floating point
C29_AttributesInExactRange ==
    (/\ Built
     /\ RangesOrdered
     /\ ExactSpan("node_size_range")
     /\ ExactSpan("edge_width_range")
     /\ ~Combined => ExactSpan("target_size_range")) => SizesInRange


(***************************************************************************)
(* The resolver's statistics after the first resolve_batch of a resolver.  *)
(***************************************************************************)
\* resolve_batch has returned, it was the first call on the resolver and no
\* task ended with an exception
FirstBatchReturned ==
    /\ Returned
    /\ calls = 1
    /\ \A ip \in DOMAIN net.last.tasks : net.last.tasks[ip].error = "none"

\* the IPs added to the cache since the resolver was created
AddedToCache ==
    DOMAIN hostname_resolver.cache \ DOMAIN HostnameResolver(net.persisted, 0).cache

\* the three equations between the counters, the tasks and the cache
StatsConsistent ==
    /\ hostname_resolver.stats["cache_hits"] + hostname_resolver.stats["cache_misses"]
           = Cardinality(DOMAIN net.last.tasks)
    /\ hostname_resolver.stats["resolved"] + hostname_resolver.stats["failed"]
           = hostname_resolver.stats["cache_misses"]
    /\ Cardinality(AddedToCache)
           = hostname_resolver.stats["resolved"] + hostname_resolver.stats["failed"]

\* C30: under every interleaving of the worker tasks, after resolve_batch
\* returns cache_hits + cache_misses is the number of lookup tasks run since
\* the resolver was created, resolved + failed equals cache_misses, and the
\* number of IPs added to the cache equals resolved + failed.
C30_StatsConsistent ==
    FirstBatchReturned => StatsConsistent

\* the same for batches of at most one task
C30_StatsConsistentOneTask ==
    (FirstBatchReturned /\ Cardinality(DOMAIN net.last.tasks) <= 1) => StatsConsistent

====
